---- MODULE Spec2Model ----
(***************************************************************************)
(* Model of the smart-plug firmware's calibration engine                   *)
(* (firmware/src/sct_calibration.c, udp_sender.c, udp_receiver.c) and of   *)
(* its Wi-Fi provisioning task (wifi_credentials_receiver.c, wifi.c).      *)
(*                                                                         *)
(* The C code computes in 32-bit floats; the model computes in fixed point *)
(* with these units:                                                       *)
(*   voltage            mV            (1.65 V        = 1650)               *)
(*   current            cA = 0.01 A   (5.0 A         = 500)                *)
(*   scale factor       0.01 A/V      (200 A/V       = 20000)              *)
(*   sensitivity, rate  1/100         (0.7           = 70)                 *)
(*   confidence_boost   1/10          (1.5           = 15)                 *)
(*   point confidence   1/10          (0.8           = 8)                  *)
(*   time               ms of xTaskGetTickCount() * portTICK_PERIOD_MS     *)
(* Comparisons between products and quotients are done by cross            *)
(* multiplication, so they are exact on the values the model uses.         *)
(***************************************************************************)
EXTENDS Integers, Sequences, FiniteSets, TLC

VARIABLES
    cal,        \* the statics of sct_calibration.c (one field per static)
    snd,        \* the statics of udp_sender.c
    now,        \* xTaskGetTickCount() * portTICK_PERIOD_MS
    command,    \* the datagram process_udp_command is handling / handled last
    response,   \* the datagram it answered with
    pc,         \* task -> position in the routine it runs
    holder,     \* the tasks holding calibration_mutex
    took,       \* task -> outcome of its last xSemaphoreTake
    access,     \* task -> the shared-field access it is performing
    ret,        \* task -> value returned by the routine it ran last
    fed,        \* readings given to the stability detector since it was reset
    load,       \* what the current sensor sees: the raw values the ADC yields
    zeroed,     \* time of the latest call of auto_calibrate_bias_voltage
    wifi        \* wifi_credentials_task: its position, retry_count and socket,
                \* and ap_running of wifi.c

vars == <<cal, snd, now, command, response, pc, holder, took, access, ret, fed, load,
          zeroed, wifi>>

----------------------------------------------------------------------------
(* Program constants (hardware_config.h, sct_calibration.c)                *)

ADC_RESOLUTION == 4095
ADC_VOLTAGE_RANGE == 3300
ADC_BIAS_VOLTAGE == 1650
MAX_CURRENT_AMPS == 10000
SCT_013_THEORETICAL_SCALE == 20000
AUTO_CAL_ZERO_INTERVAL_MS == 1800000
AUTO_CAL_VARIANCE_THRESHOLD == 1000
AUTO_CAL_MIN_CURRENT == 50
AUTO_CAL_MAX_CURRENT == 1500
AUTO_CAL_ZERO_THRESHOLD == 5
AUTO_CAL_CONSECUTIVE_ZERO_COUNT == 150
MAX_LEARNING_POINTS == 50
MIN_LEARNING_POINTS == 3
DEVICE_RECOGNITION_CONFIDENCE == 90
DEVICE_STABLE_TIME_MS == 180000
HISTORY_SIZE == 50
DAY_MS == 86400000
RMS_BUFFER_SIZE == 100

(* The value adc_oneshot_read leaves when it does not return ESP_OK.       *)
ADC_FAIL == -1
(* recognize_device's NULL.                                                *)
NULL == 0

fabsf(x) == IF x < 0 THEN -x ELSE x

(* ((float)adc_value / ADC_RESOLUTION) * ADC_VOLTAGE_RANGE                 *)
adc_to_voltage(adc_value) == (adc_value * ADC_VOLTAGE_RANGE) \div ADC_RESOLUTION

----------------------------------------------------------------------------
(* Device recognition catalog                                              *)

known_devices == <<
    [min_current |-> 40,   max_current |-> 70,   typical_current |-> 50,
     device_name |-> "60W Incandescent Bulb",       confidence_boost |-> 12],
    [min_current |-> 80,   max_current |-> 120,  typical_current |-> 100,
     device_name |-> "100W Incandescent Bulb",      confidence_boost |-> 12],
    [min_current |-> 400,  max_current |-> 600,  typical_current |-> 500,
     device_name |-> "Hair Dryer Low Setting",      confidence_boost |-> 15],
    [min_current |-> 1000, max_current |-> 1500, typical_current |-> 1250,
     device_name |-> "Hair Dryer High Setting",     confidence_boost |-> 15],
    [min_current |-> 800,  max_current |-> 1200, typical_current |-> 1000,
     device_name |-> "Space Heater",                confidence_boost |-> 13],
    [min_current |-> 1200, max_current |-> 1600, typical_current |-> 1400,
     device_name |-> "Microwave Oven",              confidence_boost |-> 14],
    [min_current |-> 600,  max_current |-> 1000, typical_current |-> 800,
     device_name |-> "Coffee Maker",                confidence_boost |-> 11],
    [min_current |-> 10,   max_current |-> 30,   typical_current |-> 20,
     device_name |-> "LED Strip/Small Electronics", confidence_boost |-> 8],
    [min_current |-> 200,  max_current |-> 400,  typical_current |-> 300,
     device_name |-> "Laptop/Monitor",              confidence_boost |-> 9],
    [min_current |-> 2,    max_current |-> 10,   typical_current |-> 5,
     device_name |-> "Phone Charger/Standby",       confidence_boost |-> 5] >>

num_known_devices == Len(known_devices)

(* The loop of recognize_device from index i on: the index of the first    *)
(* profile whose range contains current_amps, NULL when the loop ends.     *)
RECURSIVE recognize_from(_, _)
recognize_from(i, current_amps) ==
    IF i > num_known_devices THEN NULL
    ELSE IF /\ current_amps >= known_devices[i].min_current
            /\ current_amps <= known_devices[i].max_current
         THEN i
         ELSE recognize_from(i + 1, current_amps)

(* Mutant: the scan keeps going and returns the last matching profile.     *)
RECURSIVE recognize_last_from(_, _)
recognize_last_from(i, current_amps) ==
    IF i < 1 THEN NULL
    ELSE IF /\ current_amps >= known_devices[i].min_current
            /\ current_amps <= known_devices[i].max_current
         THEN i
         ELSE recognize_last_from(i - 1, current_amps)

recognize_device_last(current_amps) ==
    recognize_last_from(num_known_devices, current_amps)

recognize_device(current_amps) == recognize_from(1, current_amps)

----------------------------------------------------------------------------
(* The raw sample source. A batch is what a sampling loop reads: its first *)
(* k reads yield `first`, the others `rest`; each is a 12-bit ADC value or *)
(* ADC_FAIL.                                                               *)

ReadAt(batch, i) == IF i < batch.k THEN batch.first ELSE batch.rest


(* Sum of f[lo] .. f[hi], by halves.                                       *)
RECURSIVE fn_sum(_, _, _)
fn_sum(f, lo, hi) ==
    IF lo > hi THEN 0
    ELSE IF lo = hi THEN f[lo]
    ELSE LET mid == (lo + hi) \div 2
         IN  fn_sum(f, lo, mid) + fn_sum(f, mid + 1, hi)

(* The sampling loop of calibrate_with_known_load:                         *)
(* <<voltage_sum, valid_samples>> after num_samples reads.                 *)
known_load_loop(batch, bias, num_samples) ==
    LET ac_voltage == [i \in 0..(num_samples - 1) |->
                          fabsf(adc_to_voltage(ReadAt(batch, i)) - bias)]
        valid == [i \in 0..(num_samples - 1) |->
                     ReadAt(batch, i) # ADC_FAIL /\ ac_voltage[i] > 1]
    IN  << fn_sum([i \in 0..(num_samples - 1) |-> IF valid[i] THEN ac_voltage[i] ELSE 0],
                  0, num_samples - 1),
           fn_sum([i \in 0..(num_samples - 1) |-> IF valid[i] THEN 1 ELSE 0],
                  0, num_samples - 1) >>

(* The sampling loop of auto_calibrate_bias_voltage:                       *)
(* <<voltage_sum, valid_samples>> (the sum is of raw ADC values).          *)
bias_loop(batch, num_samples) ==
    LET ok == [i \in 0..(num_samples - 1) |-> ReadAt(batch, i) # ADC_FAIL]
    IN  << fn_sum([i \in 0..(num_samples - 1) |-> IF ok[i] THEN ReadAt(batch, i) ELSE 0],
                  0, num_samples - 1),
           fn_sum([i \in 0..(num_samples - 1) |-> IF ok[i] THEN 1 ELSE 0],
                  0, num_samples - 1) >>

----------------------------------------------------------------------------
(* Calibration Parameter Store. `taken` is the outcome of                  *)
(* xSemaphoreTake(calibration_mutex, pdMS_TO_TICKS(100)).                  *)

Logged(s, event) == [s EXCEPT !.log = Append(@, event)]

(* Mutant: the setter writes the other parameter.                          *)
set_bias_voltage_wrong_field(s, bias_v, taken) ==
    IF taken THEN [s EXCEPT !.amps_per_volt = bias_v] ELSE s

set_bias_voltage(s, bias_v, taken) ==
    IF taken
    THEN Logged([s EXCEPT !.bias_voltage = bias_v], <<"Bias voltage set to", bias_v>>)
    ELSE s

(* Mutant: on a timeout the getter falls back to the stored value.         *)
get_bias_voltage_last_known(s, taken) == s.bias_voltage

get_bias_voltage(s, taken) == IF taken THEN s.bias_voltage ELSE 0

set_amps_per_volt(s, scale, taken) ==
    IF taken
    THEN Logged([s EXCEPT !.amps_per_volt = scale], <<"Scale factor set to", scale>>)
    ELSE s

get_amps_per_volt(s, taken) == IF taken THEN s.amps_per_volt ELSE 0

get_detected_load_amps(s, taken) == IF taken THEN s.detected_load_amps ELSE 0

----------------------------------------------------------------------------
(* Learning system                                                         *)

ZeroPoint ==
    [expected_current |-> 0, measured_voltage |-> 0, timestamp |-> 0,
     confidence |-> 0, auto_generated |-> FALSE]

NewPoint(expected_current, measured_voltage, manual, t) ==
    [expected_current |-> expected_current,
     measured_voltage |-> measured_voltage,
     timestamp        |-> t,
     confidence       |-> IF manual THEN 10 ELSE 8,
     auto_generated   |-> ~manual]

(* Mutant: once the history is full the write position stays where it is. *)
learn_from_calibration_same_slot(s, expected_current, measured_voltage, manual, t) ==
    LET p == NewPoint(expected_current, measured_voltage, manual, t)
        s1 == IF s.learning_point_count < MAX_LEARNING_POINTS
              THEN [s EXCEPT !.learning_points[s.learning_point_count] = p,
                             !.learning_point_count = @ + 1]
              ELSE [s EXCEPT !.learning_points[s.learning_point_index] = p]
    IN  Logged(s1, <<"Learning point added", expected_current, measured_voltage, manual>>)

learn_from_calibration(s, expected_current, measured_voltage, manual, t) ==
    LET p == NewPoint(expected_current, measured_voltage, manual, t)
        s1 == IF s.learning_point_count < MAX_LEARNING_POINTS
              THEN [s EXCEPT !.learning_points[s.learning_point_count] = p,
                             !.learning_point_count = @ + 1]
              ELSE [s EXCEPT !.learning_points[s.learning_point_index] = p,
                             !.learning_point_index = (@ + 1) % MAX_LEARNING_POINTS]
    IN  Logged(s1, <<"Learning point added", expected_current, measured_voltage, manual>>)

(* Mutant: the reset forgets the count.                                    *)
reset_learning_data_keeps_count(s) ==
    [s EXCEPT !.learning_points = [i \in 0..(MAX_LEARNING_POINTS - 1) |-> ZeroPoint],
              !.learning_point_index = 0]

reset_learning_data(s) ==
    Logged([s EXCEPT !.learning_points = [i \in 0..(MAX_LEARNING_POINTS - 1) |-> ZeroPoint],
                     !.learning_point_count = 0,
                     !.learning_point_index = 0],
           <<"Learning data reset">>)

(* powf(LEARNING_CONFIDENCE_DECAY, age_ms / DAY_MS) in 1/1000: exact       *)
(* (19/20)^d on whole days d, linear in between.                           *)
RECURSIVE decay_days(_)
decay_days(d) == IF d = 0 THEN 1000 ELSE (decay_days(d - 1) * 19) \div 20

age_factor(age_ms) ==
    LET d == age_ms \div DAY_MS
        rem_min == (age_ms % DAY_MS) \div 60000
    IN  (decay_days(d) * (28800 - rem_min)) \div 28800

(* weight = confidence * age_factor * learning_rate, in 1/1000.            *)
point_weight(p, rate, t) ==
    (p.confidence * age_factor(t - p.timestamp) * rate) \div 1000

(* Mutant: points of negligible voltage are accumulated too.               *)
learned_sums_all_points(s, t, points_to_use) ==
    LET weight == [i \in 0..(points_to_use - 1) |->
                      point_weight(s.learning_points[i], s.learning_rate, t)]
    IN  << fn_sum([i \in 0..(points_to_use - 1) |->
                      s.learning_points[i].expected_current * weight[i]],
                  0, points_to_use - 1),
           fn_sum([i \in 0..(points_to_use - 1) |->
                      s.learning_points[i].measured_voltage * weight[i]],
                  0, points_to_use - 1),
           fn_sum(weight, 0, points_to_use - 1) >>

(* The accumulation loop of apply_learned_calibration:                     *)
(* <<numerator, denominator, total_weight>> over the first points_to_use   *)
(* points.                                                                 *)
learned_sums(s, t, points_to_use) ==
    LET weight == [i \in 0..(points_to_use - 1) |->
                      point_weight(s.learning_points[i], s.learning_rate, t)]
        used == [i \in 0..(points_to_use - 1) |->
                    s.learning_points[i].measured_voltage > 1]
    IN  << fn_sum([i \in 0..(points_to_use - 1) |->
                      IF used[i] THEN s.learning_points[i].expected_current * weight[i]
                      ELSE 0], 0, points_to_use - 1),
           fn_sum([i \in 0..(points_to_use - 1) |->
                      IF used[i] THEN s.learning_points[i].measured_voltage * weight[i]
                      ELSE 0], 0, points_to_use - 1),
           fn_sum([i \in 0..(points_to_use - 1) |-> IF used[i] THEN weight[i] ELSE 0],
                  0, points_to_use - 1) >>

(* numerator / denominator as a scale factor (0.01 A/V): the quotient of   *)
(* cA by mV times 1000, by long division so that no product overflows.     *)
scale_quotient(numerator, denominator) ==
    LET q0 == numerator \div denominator
        r0 == numerator % denominator
        q1 == (r0 * 10) \div denominator
        r1 == (r0 * 10) % denominator
        q2 == (r1 * 10) \div denominator
        r2 == (r1 * 10) % denominator
        q3 == (r2 * 10) \div denominator
    IN  q0 * 1000 + q1 * 100 + q2 * 10 + q3

(* Mutant: an accepted learned scale is taken over as it is.               *)
apply_learned_scale_undamped(s, learned_scale, current_scale) ==
    IF /\ 2 * learned_scale > current_scale
       /\ 2 * learned_scale < 3 * current_scale
    THEN Logged(set_amps_per_volt(s, learned_scale, TRUE),
                <<"Applied learned calibration", learned_scale>>)
    ELSE Logged(s, <<"Learned scale rejected", learned_scale>>)

(* apply_learned_calibration from the validity test of the learned scale   *)
(* on.                                                                     *)
apply_learned_scale(s, learned_scale, current_scale) ==
    IF /\ 2 * learned_scale > current_scale
       /\ 2 * learned_scale < 3 * current_scale
    THEN LET blended_scale == (current_scale * 7 + learned_scale * 3) \div 10
         IN  Logged(set_amps_per_volt(s, blended_scale, TRUE),
                    <<"Applied learned calibration", blended_scale>>)
    ELSE Logged(s, <<"Learned scale rejected", learned_scale>>)

(* apply_learned_calibration after its accumulation loop; sums is          *)
(* <<numerator, denominator, total_weight>>.                               *)
apply_learned_sums(s, sums) ==
    IF sums[2] > 1000 /\ sums[3] > 100
    THEN apply_learned_scale(s, scale_quotient(sums[1], sums[2]),
                             get_amps_per_volt(s, TRUE))
    ELSE s

apply_learned_calibration(s, t) ==
    IF s.learning_point_count < MIN_LEARNING_POINTS THEN s
    ELSE apply_learned_sums(s, learned_sums(s, t,
                                            IF s.learning_point_count < MAX_LEARNING_POINTS
                                            THEN s.learning_point_count
                                            ELSE MAX_LEARNING_POINTS))

----------------------------------------------------------------------------
(* Calibration primitives                                                  *)

(* calibrate_with_known_load from the average voltage on; s carries the    *)
(* function's opening log line.                                            *)
calibrate_with_known_load_scale(s, known_amps, avg_voltage, t) ==
    LET new_scale == (known_amps * 1000) \div avg_voltage
    IN  [learn_from_calibration(
             Logged([s EXCEPT !.amps_per_volt = new_scale],
                    <<"Calibration complete", new_scale>>),
             known_amps, avg_voltage, TRUE, t)
            EXCEPT !.last_auto_cal_time = t]

(* Mutant: ten valid samples are enough.                                   *)
calibrate_with_known_load_samples_ten(s, known_amps, r, t) ==
    IF r[2] >= 10
    THEN calibrate_with_known_load_scale(s, known_amps, r[1] \div r[2], t)
    ELSE Logged(s, <<"Calibration failed", r[2]>>)

(* calibrate_with_known_load after its sampling loop; r is                 *)
(* <<voltage_sum, valid_samples>>.                                         *)
calibrate_with_known_load_samples(s, known_amps, r, t) ==
    IF r[2] > 10
    THEN calibrate_with_known_load_scale(s, known_amps, r[1] \div r[2], t)
    ELSE Logged(s, <<"Calibration failed", r[2]>>)

calibrate_with_known_load(s, known_amps, batch, t) ==
    IF known_amps <= 0 \/ known_amps > MAX_CURRENT_AMPS
    THEN Logged(Logged(s, <<"Calibrating with known load", known_amps>>),
                <<"Invalid known current", known_amps>>)
    ELSE calibrate_with_known_load_samples(
             Logged(s, <<"Calibrating with known load", known_amps>>),
             known_amps, known_load_loop(batch, s.bias_voltage, 50), t)

(* Mutant: the average is scaled by the number of ADC codes, not by the    *)
(* largest code.                                                           *)
auto_calibrate_bias_voltage_samples_codes(s, r) ==
    IF r[2] > 50
    THEN Logged([s EXCEPT !.bias_voltage = (r[1] * ADC_VOLTAGE_RANGE)
                                               \div (r[2] * (ADC_RESOLUTION + 1)),
                          !.consecutive_zero_readings = 0],
                <<"Bias voltage calibrated">>)
    ELSE Logged(s, <<"Bias calibration failed">>)

(* Mutant: half of the reads are enough.                                   *)
auto_calibrate_bias_voltage_samples_half(s, r) ==
    IF r[2] >= 50
    THEN LET new_bias == (r[1] * ADC_VOLTAGE_RANGE) \div (r[2] * ADC_RESOLUTION)
         IN  Logged([s EXCEPT !.bias_voltage = new_bias,
                              !.consecutive_zero_readings = 0],
                    <<"Bias voltage calibrated to", new_bias>>)
    ELSE Logged(s, <<"Bias calibration failed">>)

(* auto_calibrate_bias_voltage after its sampling loop; r is               *)
(* <<voltage_sum, valid_samples>>.                                         *)
auto_calibrate_bias_voltage_samples(s, r) ==
    IF r[2] > 50
    THEN LET new_bias == (r[1] * ADC_VOLTAGE_RANGE) \div (r[2] * ADC_RESOLUTION)
         IN  Logged([s EXCEPT !.bias_voltage = new_bias,
                              !.consecutive_zero_readings = 0],
                    <<"Bias voltage calibrated to", new_bias>>)
    ELSE Logged(s, <<"Bias calibration failed">>)

auto_calibrate_bias_voltage(s, batch) ==
    auto_calibrate_bias_voltage_samples(s, bias_loop(batch, 100))

----------------------------------------------------------------------------
(* Device recognition and the stability detector                           *)

(* confidence > DEVICE_RECOGNITION_CONFIDENCE, where                       *)
(*   match_quality = 1 - |measured - typical| / (max - min)                *)
(*   confidence    = match_quality * confidence_boost * sensitivity        *)
(* cross-multiplied by (max - min) * 10 * 100 * 100.                       *)
confident(device, measured_current, sensitivity) ==
    LET range == device.max_current - device.min_current
        match_num == range - fabsf(measured_current - device.typical_current)
    IN  match_num * device.confidence_boost * sensitivity
            > DEVICE_RECOGNITION_CONFIDENCE * 10 * range

(* auto_recognize_and_calibrate after a confident match, calibrated on the *)
(* device's typical current: the auto-generated learning point.            *)
auto_recognize_learn(s, device, measured_current, t) ==
    learn_from_calibration(s, device.typical_current,
                           (measured_current * 1000) \div get_amps_per_volt(s, TRUE),
                           FALSE, t)

(* Mutant: the confidence is not compared with the threshold.              *)
auto_recognize_confidence_no_gate(s, device, measured_current, batch, t) ==
    auto_recognize_learn(
        [calibrate_with_known_load(s, device.typical_current, batch, t)
            EXCEPT !.successful_recognitions = @ + 1],
        device, measured_current, t)

(* Mutant: the calibration is anchored on the measured current.            *)
auto_recognize_confidence_measured(s, device, measured_current, batch, t) ==
    IF confident(device, measured_current, s.auto_cal_sensitivity)
    THEN auto_recognize_learn(
             [calibrate_with_known_load(s, measured_current, batch, t)
                 EXCEPT !.successful_recognitions = @ + 1],
             device, measured_current, t)
    ELSE [Logged(s, <<"Low confidence">>) EXCEPT !.failed_recognitions = @ + 1]

(* auto_recognize_and_calibrate from its confidence test on.               *)
auto_recognize_confidence(s, device, measured_current, batch, t) ==
    IF confident(device, measured_current, s.auto_cal_sensitivity)
    THEN auto_recognize_learn(
             [calibrate_with_known_load(s, device.typical_current, batch, t)
                 EXCEPT !.successful_recognitions = @ + 1],
             device, measured_current, t)
    ELSE [Logged(s, <<"Low confidence">>) EXCEPT !.failed_recognitions = @ + 1]

(* auto_recognize_and_calibrate once recognize_device has answered.        *)
auto_recognize_device(s, device, measured_current, batch, t) ==
    IF device # NULL
    THEN auto_recognize_confidence(
             Logged(s, <<"Auto-recognized device", known_devices[device].device_name>>),
             known_devices[device], measured_current, batch, t)
    ELSE s

auto_recognize_and_calibrate(s, measured_current, batch, t) ==
    auto_recognize_device(Logged(s, <<"auto_recognize_and_calibrate", measured_current>>),
                          recognize_device(measured_current), measured_current, batch, t)

history_mean(h) == fn_sum(h, 0, HISTORY_SIZE - 1) \div HISTORY_SIZE

history_variance_about(h, mean) ==
    fn_sum([i \in 0..(HISTORY_SIZE - 1) |-> (h[i] - mean) * (h[i] - mean)],
           0, HISTORY_SIZE - 1) \div HISTORY_SIZE

history_variance(h) == history_variance_about(h, history_mean(h))

is_stable_at(variance, mean) ==
    /\ variance < AUTO_CAL_VARIANCE_THRESHOLD
    /\ mean >= AUTO_CAL_MIN_CURRENT
    /\ mean <= AUTO_CAL_MAX_CURRENT

is_stable(h) == is_stable_at(history_variance(h), history_mean(h))

(* continuous_auto_calibration after a scale calibration on the stable     *)
(* load: the auto-generated learning point.                                *)
continuous_auto_calibration_learn(s, t) ==
    learn_from_calibration(s, s.stable_load_value,
                           (s.stable_load_value * 1000) \div get_amps_per_volt(s, TRUE),
                           FALSE, t)

(* The scale calibration of a load that has stayed stable.                 *)
continuous_auto_calibration_scale(s, batch, t) ==
    IF t - s.last_scale_calibration > AUTO_CAL_ZERO_INTERVAL_MS
    THEN continuous_auto_calibration_learn(
             [calibrate_with_known_load(
                  Logged(s, <<"Auto-calibrating with stable load", s.stable_load_value>>),
                  s.stable_load_value, batch, t)
                 EXCEPT !.last_scale_calibration = t,
                        !.auto_cal_count = @ + 1],
             t)
    ELSE s

(* Mutant: a stable window starts a stable period whether or not one is    *)
(* already running.                                                        *)
continuous_auto_calibration_window_every_time(s, mean, stable, batch, t) ==
    IF stable
    THEN auto_recognize_and_calibrate(
             Logged([s EXCEPT !.stable_load_start = t,
                              !.stable_load_value = mean,
                              !.in_stable_period = TRUE],
                    <<"Stable load detected", mean>>),
             mean, batch, t)
    ELSE [s EXCEPT !.in_stable_period = FALSE]

(* continuous_auto_calibration once the full window's mean and stability   *)
(* are known.                                                              *)
continuous_auto_calibration_window(s, mean, stable, batch, t) ==
    IF stable /\ ~s.in_stable_period
    THEN auto_recognize_and_calibrate(
             Logged([s EXCEPT !.stable_load_start = t,
                              !.stable_load_value = mean,
                              !.in_stable_period = TRUE],
                    <<"Stable load detected", mean>>),
             mean, batch, t)
    ELSE IF stable /\ s.in_stable_period
    THEN IF t - s.stable_load_start > DEVICE_STABLE_TIME_MS
         THEN [continuous_auto_calibration_scale(s, batch, t)
                  EXCEPT !.in_stable_period = FALSE]
         ELSE s
    ELSE [s EXCEPT !.in_stable_period = FALSE]

(* continuous_auto_calibration on a non-zero reading.                      *)
continuous_auto_calibration_load(s, batch, t) ==
    IF ~s.history_full THEN s
    ELSE continuous_auto_calibration_window(s, history_mean(s.current_history),
                                            is_stable(s.current_history), batch, t)

(* Mutant: a reading at the threshold counts as near zero.                 *)
continuous_auto_calibration_at_threshold(s, current_reading, batch, t) ==
    IF current_reading <= AUTO_CAL_ZERO_THRESHOLD
    THEN [s EXCEPT !.consecutive_zero_readings = @ + 1]
    ELSE continuous_auto_calibration_load([s EXCEPT !.consecutive_zero_readings = 0],
                                          batch, t)

continuous_auto_calibration(s, current_reading, batch, t) ==
    IF current_reading < AUTO_CAL_ZERO_THRESHOLD
    THEN [s EXCEPT !.consecutive_zero_readings = @ + 1]
    ELSE continuous_auto_calibration_load([s EXCEPT !.consecutive_zero_readings = 0],
                                          batch, t)

process_current_for_auto_calibration(s, current_amps, batch, t) ==
    IF ~s.auto_calibration_enabled THEN s
    ELSE
    LET next_index == (s.history_index + 1) % HISTORY_SIZE
        s1 == [s EXCEPT !.current_history[s.history_index] = current_amps,
                        !.history_index = next_index,
                        !.history_full = IF next_index = 0 THEN TRUE ELSE @,
                        !.detected_load_amps = current_amps]
    IN  continuous_auto_calibration(s1, current_amps, batch, t)


(* The sampling loop of auto_detect_load_current: <<total, valid_samples>>. *)
(* It reads bias_voltage and amps_per_volt directly.                       *)
detect_loop(batch, s, num_samples) ==
    LET current == [i \in 0..(num_samples - 1) |->
                       (fabsf(adc_to_voltage(ReadAt(batch, i)) - s.bias_voltage)
                            * s.amps_per_volt) \div 1000]
        valid == [i \in 0..(num_samples - 1) |->
                     /\ ReadAt(batch, i) # ADC_FAIL
                     /\ current[i] >= 0
                     /\ current[i] < MAX_CURRENT_AMPS]
    IN  << fn_sum([i \in 0..(num_samples - 1) |-> IF valid[i] THEN current[i] ELSE 0],
                  0, num_samples - 1),
           fn_sum([i \in 0..(num_samples - 1) |-> IF valid[i] THEN 1 ELSE 0],
                  0, num_samples - 1) >>

(* auto_detect_load_current after its sampling loop; r is                  *)
(* <<total, valid_samples>>.                                               *)
auto_detect_load_current_average(s, r, batch, t) ==
    IF r[2] > 0
    THEN LET avg_current == r[1] \div r[2]
         IN  process_current_for_auto_calibration(
                 Logged([s EXCEPT !.detected_load_amps = avg_current],
                        <<"Detected load", avg_current>>),
                 avg_current, batch, t)
    ELSE Logged(s, <<"Failed to detect valid load current">>)

auto_detect_load_current(s, batch, t) ==
    IF ~s.auto_detection_enabled THEN s
    ELSE auto_detect_load_current_average(s, detect_loop(batch, s, 20), batch, t)

----------------------------------------------------------------------------
(* Auto-calibration controller                                             *)

should_auto_calibrate_zero(s, t) ==
    /\ s.auto_calibration_enabled
    /\ (t - s.last_zero_calibration) > AUTO_CAL_ZERO_INTERVAL_MS
    /\ s.consecutive_zero_readings > AUTO_CAL_CONSECUTIVE_ZERO_COUNT

(* Mutant: the sensitivity is raised and lowered whatever its value.       *)
adaptive_threshold_adjustment_unguarded(s, t) ==
    IF t - s.last_adjustment < 3600000 THEN s
    ELSE
    LET ok == s.successful_recognitions
        ko == s.failed_recognitions
        high == ok + ko > 0 /\ 10 * ok > 8 * (ok + ko)
        low  == ok + ko > 0 /\ 10 * ok < 4 * (ok + ko)
        s1 == IF high
              THEN Logged([s EXCEPT !.auto_cal_sensitivity = @ + 5],
                          <<"Increased auto-cal sensitivity">>)
              ELSE IF low
              THEN Logged([s EXCEPT !.auto_cal_sensitivity = @ - 5],
                          <<"Decreased auto-cal sensitivity">>)
              ELSE s
    IN  [s1 EXCEPT !.last_adjustment = t]

adaptive_threshold_adjustment(s, t) ==
    IF t - s.last_adjustment < 3600000 THEN s
    ELSE
    LET ok == s.successful_recognitions
        ko == s.failed_recognitions
        \* success_rate > 0.8 and success_rate < 0.4, with 0.5 when no attempt
        high == ok + ko > 0 /\ 10 * ok > 8 * (ok + ko)
        low  == ok + ko > 0 /\ 10 * ok < 4 * (ok + ko)
        s1 == IF high /\ s.auto_cal_sensitivity < 90
              THEN Logged([s EXCEPT !.auto_cal_sensitivity = @ + 5],
                          <<"Increased auto-cal sensitivity">>)
              ELSE IF low /\ s.auto_cal_sensitivity > 30
              THEN Logged([s EXCEPT !.auto_cal_sensitivity = @ - 5],
                          <<"Decreased auto-cal sensitivity">>)
              ELSE s
    IN  [s1 EXCEPT !.last_adjustment = t]

(* The statements of adaptive_threshold_adjustment one by one: the test    *)
(* against last_adjustment with now in the local t, the change of the      *)
(* sensitivity, and the assignment of the local to last_adjustment.        *)
adaptive_threshold_due(s, t) == ~(t - s.last_adjustment < 3600000)

adaptive_threshold_change(s) ==
    LET ok == s.successful_recognitions
        ko == s.failed_recognitions
        high == ok + ko > 0 /\ 10 * ok > 8 * (ok + ko)
        low  == ok + ko > 0 /\ 10 * ok < 4 * (ok + ko)
    IN  IF high /\ s.auto_cal_sensitivity < 90
        THEN [s EXCEPT !.auto_cal_sensitivity = @ + 5]
        ELSE IF low /\ s.auto_cal_sensitivity > 30
        THEN [s EXCEPT !.auto_cal_sensitivity = @ - 5]
        ELSE s

adaptive_threshold_stamp(s, t) == [s EXCEPT !.last_adjustment = t]

(* One iteration of the loop of auto_calibration_task, entered with        *)
(* auto_calibration_enabled true.                                          *)
auto_calibration_zero(s, batch, t) ==
    IF should_auto_calibrate_zero(s, t)
    THEN [auto_calibrate_bias_voltage(
              Logged(s, <<"Performing automatic zero-point recalibration">>), batch)
             EXCEPT !.last_zero_calibration = t,
                    !.auto_cal_count = @ + 1]
    ELSE s

auto_calibration_learning(s, t) ==
    IF s.learning_point_count >= MIN_LEARNING_POINTS
    THEN apply_learned_calibration(s, t)
    ELSE s

auto_calibration_iteration(s, batch, t) ==
    adaptive_threshold_adjustment(
        auto_calibration_learning(auto_calibration_zero(s, batch, t), t), t)

----------------------------------------------------------------------------
(* Configuration and statistics                                            *)

set_auto_cal_sensitivity(s, sensitivity) ==
    IF sensitivity >= 0 /\ sensitivity <= 100
    THEN [s EXCEPT !.auto_cal_sensitivity = sensitivity]
    ELSE s

set_learning_rate(s, rate) ==
    IF rate >= 0 /\ rate <= 100
    THEN [s EXCEPT !.learning_rate = rate]
    ELSE s

(* Mutant: the reset leaves the recognition counters.                      *)
reset_auto_cal_statistics_partial(s) ==
    [s EXCEPT !.auto_cal_count = 0, !.last_auto_cal_time = 0]

reset_auto_cal_statistics(s) ==
    Logged([s EXCEPT !.auto_cal_count = 0,
                     !.successful_recognitions = 0,
                     !.failed_recognitions = 0,
                     !.last_auto_cal_time = 0],
           <<"Auto-calibration statistics reset">>)

(* The assignment of set_auto_calibration; the task it creates when        *)
(* enabled is the caller's to start.                                       *)
set_auto_calibration(s, enabled, taken) ==
    IF taken THEN [s EXCEPT !.auto_calibration_enabled = enabled] ELSE s

set_auto_detection(s, enabled, taken) ==
    IF taken THEN [s EXCEPT !.auto_detection_enabled = enabled] ELSE s

----------------------------------------------------------------------------
(* udp_sender.c: statistics reset                                          *)

(* sqrtf, rounded down to a whole number: the largest r in lo..hi with      *)
(* r * r <= x.                                                             *)
RECURSIVE sqrt_between(_, _, _)
sqrt_between(x, lo, hi) ==
    IF lo = hi THEN lo
    ELSE LET mid == (lo + hi + 1) \div 2
         IN  IF mid * mid <= x
             THEN sqrt_between(x, mid, hi)
             ELSE sqrt_between(x, lo, mid - 1)

sqrtf(x) == sqrt_between(x, 0, 46340)

(* measure_loop with every read counted in the divisor.                    *)
measure_loop_counts_failed(batch, bias, num_samples) ==
    << fn_sum([i \in 0..(num_samples - 1) |->
                  IF ReadAt(batch, i) # ADC_FAIL
                  THEN (adc_to_voltage(ReadAt(batch, i)) - bias)
                           * (adc_to_voltage(ReadAt(batch, i)) - bias)
                  ELSE 0],
              0, num_samples - 1),
       num_samples >>

(* The sampling loop of measure_rms_current:                               *)
(* <<voltage_sum_squared, valid_samples>>; bias is what get_bias_voltage   *)
(* returns.                                                                *)
measure_loop(batch, bias, num_samples) ==
    << fn_sum([i \in 0..(num_samples - 1) |->
                  IF ReadAt(batch, i) # ADC_FAIL
                  THEN (adc_to_voltage(ReadAt(batch, i)) - bias)
                           * (adc_to_voltage(ReadAt(batch, i)) - bias)
                  ELSE 0],
              0, num_samples - 1),
       fn_sum([i \in 0..(num_samples - 1) |->
                  IF ReadAt(batch, i) # ADC_FAIL THEN 1 ELSE 0],
              0, num_samples - 1) >>

Measured(s, sn, current_amps) == [cal |-> s, snd |-> sn, ret |-> current_amps]

(* voltage_buffer's index and fill flag after valid_samples stores (the    *)
(* stored voltages themselves are not modelled).                           *)
measure_rms_current_buffer(sn, valid_samples) ==
    [sn EXCEPT !.buffer_index = (@ + valid_samples) % RMS_BUFFER_SIZE,
               !.buffer_filled =
                   @ \/ (valid_samples > 0
                            /\ sn.buffer_index + valid_samples >= RMS_BUFFER_SIZE)]

(* measure_rms_current_statistics without the update of max_current.       *)
measure_rms_current_statistics_no_max(sn, voltage_rms, current_amps) ==
    [sn EXCEPT !.last_measured_vrms = voltage_rms,
               !.total_measurements = @ + 1,
               !.min_current = IF current_amps < @ THEN current_amps ELSE @,
               !.accumulated_current = @ + current_amps,
               !.measurement_count = @ + 1]

measure_rms_current_statistics(sn, voltage_rms, current_amps) ==
    [sn EXCEPT !.last_measured_vrms = voltage_rms,
               !.total_measurements = @ + 1,
               !.min_current = IF current_amps < @ THEN current_amps ELSE @,
               !.max_current = IF current_amps > @ THEN current_amps ELSE @,
               !.accumulated_current = @ + current_amps,
               !.measurement_count = @ + 1]

(* measure_rms_current's hand-over to the stability detector.              *)
measure_rms_current_process(s, current_amps, batch, t) ==
    IF s.auto_calibration_enabled
    THEN process_current_for_auto_calibration(s, current_amps, batch, t)
    ELSE s

(* measure_rms_current's periodic auto-detection.                          *)
measure_rms_current_detect(s, sn, batch, t) ==
    IF s.auto_detection_enabled /\ sn.measurement_count % 50 = 0
    THEN auto_detect_load_current(s, batch, t)
    ELSE s

(* measure_rms_current from the updated statistics on.                     *)
measure_rms_current_integration(s, sn, current_amps, batch, t) ==
    Measured(measure_rms_current_detect(
                 measure_rms_current_process(s, current_amps, batch, t), sn, batch, t),
             sn, current_amps)

(* measure_rms_current from the RMS voltage on.                            *)
measure_rms_current_amps(s, sn, voltage_rms, current_amps, batch, t) ==
    measure_rms_current_integration(
        s, measure_rms_current_statistics(sn, voltage_rms, current_amps),
        current_amps, batch, t)

(* measure_rms_current after its sampling loop; r is                       *)
(* <<voltage_sum_squared, valid_samples>>.                                 *)
measure_rms_current_samples(s, sn, r, batch, t) ==
    IF r[2] = 0
    THEN Measured(s, measure_rms_current_buffer(sn, 0), 0)
    ELSE measure_rms_current_amps(
             s, measure_rms_current_buffer(sn, r[2]), sqrtf(r[1] \div r[2]),
             (sqrtf(r[1] \div r[2]) * get_amps_per_volt(s, TRUE)) \div 1000, batch, t)

measure_rms_current(s, sn, batch, t) ==
    measure_rms_current_samples(
        s, sn, measure_loop(batch, get_bias_voltage(s, TRUE), RMS_BUFFER_SIZE), batch, t)

reset_measurement_statistics(sn) ==
    [sn EXCEPT !.total_measurements = 0,
               !.min_current = 99999900,
               !.max_current = 0,
               !.accumulated_current = 0,
               !.measurement_count = 0]

----------------------------------------------------------------------------
(* udp_receiver.c: process_udp_command                                     *)
(* A command is [name, comma, arg1, arg2]: the text before the ':' (or the *)
(* whole text), whether the argument text holds a ',', and atof of the     *)
(* text after the ':' and after the ','.                                   *)

(* strncmp(command, literal, strlen(literal)) == 0: the command text       *)
(* starts with the literal. AUTO_DETECT is the one literal that starts     *)
(* other command names.                                                    *)
starts_with(name, literal) ==
    \/ name = literal
    \/ literal = "AUTO_DETECT" /\ name \in {"AUTO_DETECT_ON", "AUTO_DETECT_OFF"}

Result(s, sn, resp) == [cal |-> s, snd |-> sn, response |-> resp]

(* The responses that report a parameter read back from the store after   *)
(* the command's calibration has run.                                      *)
BiasResult(s, sn, tag) == Result(s, sn, <<tag, "SUCCESS", get_bias_voltage(s, TRUE)>>)

ScaleResult(s, sn, tag) == Result(s, sn, <<tag, "SUCCESS", get_amps_per_volt(s, TRUE)>>)

DetectedResult(s, sn, tag) ==
    Result(s, sn, <<tag, "SUCCESS", get_detected_load_amps(s, TRUE)>>)

perform_zero_calibration(s, sn, batch) ==
    BiasResult(auto_calibrate_bias_voltage(s, batch), sn, "ZERO_CAL")

perform_scale_calibration(s, sn, known_current, batch, t) ==
    ScaleResult(calibrate_with_known_load(s, known_current, batch, t), sn, "SCALE_CAL")

reset_calibration(s, sn) ==
    LET s1 == set_bias_voltage(s, ADC_BIAS_VOLTAGE, TRUE)
        s2 == set_amps_per_volt(s1, SCT_013_THEORETICAL_SCALE, TRUE)
        s3 == reset_learning_data(s2)
        s4 == reset_auto_cal_statistics(s3)
    IN  Result(s4, sn, <<"RESET_CAL", "SUCCESS",
                         get_bias_voltage(s4, TRUE), get_amps_per_volt(s4, TRUE)>>)

manual_cal(s, sn, c) ==
    IF c.comma
    THEN LET s1 == set_bias_voltage(s, c.arg1, TRUE)
             s2 == set_amps_per_volt(s1, c.arg2, TRUE)
         IN  Result(s2, sn, <<"MANUAL_CAL", "SUCCESS", c.arg1, c.arg2>>)
    ELSE Result(s, sn, <<"MANUAL_CAL", "ERROR", "INVALID_FORMAT">>)

set_bias_command(s, sn, c) ==
    IF c.arg1 >= 100 /\ c.arg1 <= 3000
    THEN Result(set_bias_voltage(s, c.arg1, TRUE), sn, <<"SET_BIAS", "SUCCESS", c.arg1>>)
    ELSE Result(s, sn, <<"SET_BIAS", "ERROR", "INVALID_RANGE">>)

set_scale_command(s, sn, c) ==
    IF c.arg1 >= 100 /\ c.arg1 <= 100000
    THEN Result(set_amps_per_volt(s, c.arg1, TRUE), sn, <<"SET_SCALE", "SUCCESS", c.arg1>>)
    ELSE Result(s, sn, <<"SET_SCALE", "ERROR", "INVALID_RANGE">>)

recognize_current_command(s, sn, c) ==
    LET device == recognize_device(c.arg1)
    IN  IF device # NULL
        THEN Result(s, sn, <<"DEVICE_RECOGNIZED", known_devices[device].device_name>>)
        ELSE Result(s, sn, <<"DEVICE_RECOGNIZED", "NONE">>)

process_udp_command(s, sn, c, batch, t) ==
    IF starts_with(c.name, "RELAY_ON") THEN Result(s, sn, <<"RELAY_ON", "SUCCESS">>)
    ELSE IF starts_with(c.name, "RELAY_OFF") THEN Result(s, sn, <<"RELAY_OFF", "SUCCESS">>)
    ELSE IF starts_with(c.name, "RELAY_TOGGLE")
    THEN Result(s, sn, <<"RELAY_TOGGLE", "SUCCESS">>)
    ELSE IF starts_with(c.name, "AUTO_CAL_ON")
    THEN Result(set_auto_calibration(s, TRUE, TRUE), sn, <<"AUTO_CAL_ON", "SUCCESS">>)
    ELSE IF starts_with(c.name, "AUTO_CAL_OFF")
    THEN Result(set_auto_calibration(s, FALSE, TRUE), sn, <<"AUTO_CAL_OFF", "SUCCESS">>)
    ELSE IF starts_with(c.name, "AUTO_CAL_STATUS")
    THEN Result(s, sn, <<"AUTO_CAL_STATUS", s.auto_cal_count, s.successful_recognitions,
                         s.failed_recognitions, s.learning_point_count,
                         s.auto_cal_sensitivity>>)
    ELSE IF starts_with(c.name, "AUTO_CAL_SENSITIVITY")
    THEN IF c.arg1 >= 0 /\ c.arg1 <= 100
         THEN Result(set_auto_cal_sensitivity(s, c.arg1), sn,
                     <<"AUTO_CAL_SENSITIVITY", "SUCCESS", c.arg1>>)
         ELSE Result(s, sn, <<"AUTO_CAL_SENSITIVITY", "ERROR", "INVALID_RANGE">>)
    ELSE IF starts_with(c.name, "AUTO_CAL_LEARNING_RATE")
    THEN IF c.arg1 >= 0 /\ c.arg1 <= 100
         THEN Result(set_learning_rate(s, c.arg1), sn,
                     <<"LEARNING_RATE", "SUCCESS", c.arg1>>)
         ELSE Result(s, sn, <<"LEARNING_RATE", "ERROR", "INVALID_RANGE">>)
    ELSE IF starts_with(c.name, "LIST_DEVICES")
    THEN Result(s, sn, <<"DEVICE_LIST">>)
    ELSE IF starts_with(c.name, "RECOGNIZE_CURRENT")
    THEN recognize_current_command(s, sn, c)
    ELSE IF starts_with(c.name, "AUTO_RECOGNIZE")
    THEN LET current == get_detected_load_amps(s, TRUE)
         IN  Result(auto_recognize_and_calibrate(s, current, batch, t), sn,
                    <<"AUTO_RECOGNIZE", "PROCESSED", current>>)
    ELSE IF starts_with(c.name, "LEARNING_STATS")
    THEN Result(s, sn, <<"LEARNING_STATS", s.learning_point_count, s.learning_rate>>)
    ELSE IF starts_with(c.name, "RESET_LEARNING")
    THEN Result(reset_learning_data(s), sn, <<"RESET_LEARNING", "SUCCESS">>)
    ELSE IF starts_with(c.name, "APPLY_LEARNING")
    THEN Result(apply_learned_calibration(s, t), sn, <<"APPLY_LEARNING", "SUCCESS">>)
    ELSE IF starts_with(c.name, "ZERO_CAL") THEN perform_zero_calibration(s, sn, batch)
    ELSE IF starts_with(c.name, "SCALE_CAL")
    THEN perform_scale_calibration(s, sn, c.arg1, batch, t)
    ELSE IF starts_with(c.name, "MANUAL_CAL") THEN manual_cal(s, sn, c)
    ELSE IF starts_with(c.name, "RESET_CAL") THEN reset_calibration(s, sn)
    ELSE IF starts_with(c.name, "CAL_STATUS")
    THEN Result(s, sn, <<"CAL_STATUS", get_bias_voltage(s, TRUE), get_amps_per_volt(s, TRUE),
                         s.auto_calibration_enabled, s.auto_detection_enabled,
                         get_detected_load_amps(s, TRUE), s.learning_point_count>>)
    ELSE IF starts_with(c.name, "AUTO_DETECT")
    THEN DetectedResult(auto_detect_load_current(s, batch, t), sn, "AUTO_DETECT")
    ELSE IF starts_with(c.name, "AUTO_DETECT_ON")
    THEN Result(set_auto_detection(s, TRUE, TRUE), sn, <<"AUTO_DETECT_ON", "SUCCESS">>)
    ELSE IF starts_with(c.name, "AUTO_DETECT_OFF")
    THEN Result(set_auto_detection(s, FALSE, TRUE), sn, <<"AUTO_DETECT_OFF", "SUCCESS">>)
    ELSE IF starts_with(c.name, "GET_CURRENT")
    THEN Result(s, sn, <<"CURRENT", get_detected_load_amps(s, TRUE), sn.last_measured_vrms>>)
    ELSE IF starts_with(c.name, "MEASUREMENT_STATS")
    THEN Result(s, sn, <<"MEASUREMENT_STATS", sn.total_measurements, sn.min_current,
                         sn.max_current, sn.last_measured_vrms>>)
    ELSE IF starts_with(c.name, "RESET_STATS")
    THEN Result(reset_auto_cal_statistics(s), reset_measurement_statistics(sn),
                <<"RESET_STATS", "SUCCESS">>)
    ELSE IF starts_with(c.name, "BUFFER_ANALYSIS")
    THEN Result(s, sn, <<"BUFFER_ANALYSIS", sn.buffer_filled>>)
    ELSE IF starts_with(c.name, "DEBUG_ADC")
    THEN Result(s, sn, <<"DEBUG_ADC", "COMPLETE">>)
    ELSE IF starts_with(c.name, "RECALIBRATE_BIAS")
    THEN perform_zero_calibration(s, sn, batch)
    ELSE IF starts_with(c.name, "SCT_INFO")
    THEN Result(s, sn, <<"SCT_INFO", get_amps_per_volt(s, TRUE), get_bias_voltage(s, TRUE)>>)
    ELSE IF starts_with(c.name, "SYSTEM_STATUS")
    THEN Result(s, sn, <<"SYSTEM_STATUS", s.auto_calibration_enabled,
                         s.auto_detection_enabled, s.auto_cal_count>>)
    ELSE IF starts_with(c.name, "PING") THEN Result(s, sn, <<"PONG">>)
    ELSE IF starts_with(c.name, "RESTART") THEN Result(s, sn, <<"RESTART", "ACKNOWLEDGED">>)
    ELSE IF starts_with(c.name, "GET_CONFIG")
    THEN Result(s, sn, <<"CONFIG", s.auto_detection_enabled, s.auto_cal_sensitivity>>)
    ELSE IF starts_with(c.name, "SET_BIAS") THEN set_bias_command(s, sn, c)
    ELSE IF starts_with(c.name, "SET_SCALE") THEN set_scale_command(s, sn, c)
    ELSE IF starts_with(c.name, "CALIBRATE")
    THEN ScaleResult(calibrate_with_known_load(s, c.arg1, batch, t), sn, "CALIBRATE")
    ELSE IF starts_with(c.name, "CAL_KNOWN")
    THEN ScaleResult(calibrate_with_known_load(s, c.arg1, batch, t), sn, "CAL_KNOWN")
    ELSE IF starts_with(c.name, "HELP") THEN Result(s, sn, <<"HELP">>)
    ELSE Result(s, sn, <<"ERROR", "UNKNOWN_COMMAND", c.name>>)

----------------------------------------------------------------------------
(* wifi_credentials_receiver.c, wifi.c: the provisioning task. A datagram  *)
(* is a sequence of characters; "NUL" is the zero byte.                    *)

MAX_RETRY_ATTEMPTS == 3
MAX_SSID_LEN == 32
MAX_PASSWORD_LEN == 64

(* The C string that starts at position from of buf: the characters up to  *)
(* the first zero byte.                                                    *)
RECURSIVE c_str(_, _)
c_str(buf, from) ==
    IF from > Len(buf) \/ buf[from] = "NUL" THEN <<>>
    ELSE <<buf[from]>> \o c_str(buf, from + 1)

(* strchr(str, ','): the position of the first comma, 0 for NULL.          *)
strchr_comma(str) ==
    IF \E i \in 1..Len(str) : str[i] = ","
    THEN CHOOSE i \in 1..Len(str) :
             str[i] = "," /\ \A j \in 1..(i - 1) : str[j] # ","
    ELSE 0

(* strncpy(dst, src, n) followed by dst[n] = 0, into a zeroed buffer.      *)
strncpy(src, n) == SubSeq(src, 1, IF Len(src) < n THEN Len(src) ELSE n)

(* The parse of a datagram of len > 0 that recvfrom stored in rx_buffer.   *)
parse_credentials(rx_buffer) ==
    LET str == c_str(rx_buffer, 1)
        comma_pos == strchr_comma(str)
    IN  IF comma_pos # 0
        THEN [kind     |-> "credentials",
              ssid     |-> strncpy(str, IF comma_pos - 1 > MAX_SSID_LEN
                                        THEN MAX_SSID_LEN ELSE comma_pos - 1),
              password |-> strncpy(SubSeq(str, comma_pos + 1, Len(str)),
                                   MAX_PASSWORD_LEN)]
        ELSE [kind     |-> "credentials",
              ssid     |-> strncpy(str, MAX_SSID_LEN),
              password |-> <<>>]

(* connect_to_wifi with the framework initialised; joined is whether the   *)
(* network lets the station in before the 45 s are over.                   *)
connect_to_wifi(ssid, password, joined) ==
    IF Len(ssid) = 0 THEN FALSE ELSE joined

stop_fallback_ap(w) == IF ~w.ap_running THEN w ELSE [w EXCEPT !.ap_running = FALSE]

(* The end of the task: close(sock), vTaskDelete(NULL).                    *)
wifi_credentials_end(w) == [w EXCEPT !.state = "deleted"]

(* The test of the while loop after an iteration.                          *)
wifi_credentials_loop(w) ==
    IF w.retry_count < MAX_RETRY_ATTEMPTS THEN w ELSE wifi_credentials_end(w)

(* Mutant: a failed attempt is not counted.                                *)
wifi_credentials_packet_uncounted(w, rx_buffer, joined) ==
    LET c == parse_credentials(rx_buffer)
        w1 == [w EXCEPT !.received = c, !.sent = <<"RECEIVED">>]
    IN  IF Len(c.ssid) > 0 /\ connect_to_wifi(c.ssid, c.password, joined)
        THEN wifi_credentials_end(
                 stop_fallback_ap([w1 EXCEPT !.sent = Append(@, "SUCCESS")]))
        ELSE wifi_credentials_loop([w1 EXCEPT !.sent = Append(@, "FAILED")])

(* An iteration that received a datagram of len > 0.                       *)
wifi_credentials_packet(w, rx_buffer, joined) ==
    LET c == parse_credentials(rx_buffer)
        w1 == [w EXCEPT !.received = c, !.sent = <<"RECEIVED">>]
    IN  IF Len(c.ssid) > 0 /\ connect_to_wifi(c.ssid, c.password, joined)
        THEN wifi_credentials_end(
                 stop_fallback_ap([w1 EXCEPT !.sent = Append(@, "SUCCESS")]))
        ELSE wifi_credentials_loop([w1 EXCEPT !.sent = Append(@, "FAILED"),
                                              !.retry_count = @ + 1])

(* An iteration whose recvfrom returned 0 (empty datagram) or -1 (timeout  *)
(* or error).                                                              *)
wifi_credentials_nothing(w, len) ==
    wifi_credentials_loop(
        [w EXCEPT !.received = [kind |-> IF len = 0 THEN "empty" ELSE "timeout",
                                ssid |-> <<>>, password |-> <<>>],
                  !.sent = <<>>])

----------------------------------------------------------------------------
(* Initial state: the static initialisers, then app_main's                 *)
(* sct_calibration_init and perform_comprehensive_startup_calibration.     *)

Tasks == {"sampler", "controller", "handler"}

CalStatics ==
    [amps_per_volt             |-> 20000,
     bias_voltage              |-> 1650,
     auto_detection_enabled    |-> TRUE,
     auto_calibration_enabled  |-> TRUE,
     detected_load_amps        |-> 0,
     last_zero_calibration     |-> 0,
     last_scale_calibration    |-> 0,
     consecutive_zero_readings |-> 0,
     auto_cal_sensitivity      |-> 70,
     learning_rate             |-> 10,
     learning_points           |-> [i \in 0..(MAX_LEARNING_POINTS - 1) |-> ZeroPoint],
     learning_point_count      |-> 0,
     learning_point_index      |-> 0,
     auto_cal_count            |-> 0,
     last_auto_cal_time        |-> 0,
     successful_recognitions   |-> 0,
     failed_recognitions       |-> 0,
     current_history           |-> [i \in 0..(HISTORY_SIZE - 1) |-> 0],
     history_index             |-> 0,
     history_full              |-> FALSE,
     stable_load_start         |-> 0,
     stable_load_value         |-> 0,
     in_stable_period          |-> FALSE,
     last_adjustment           |-> 0,
     log                       |-> <<>>]

SndStatics ==
    [buffer_index        |-> 0,
     buffer_filled       |-> FALSE,
     measurement_count   |-> 0,
     last_measured_vrms  |-> 0,
     total_measurements  |-> 0,
     min_current         |-> 99999900,
     max_current         |-> 0,
     accumulated_current |-> 0]

sct_calibration_init(s, batch) ==
    LET s1 == [s EXCEPT !.learning_points =
                            [i \in 0..(MAX_LEARNING_POINTS - 1) |-> ZeroPoint],
                        !.learning_point_count = 0,
                        !.learning_point_index = 0,
                        !.current_history = [i \in 0..(HISTORY_SIZE - 1) |-> 0],
                        !.history_index = 0,
                        !.history_full = FALSE]
    IN  auto_calibrate_bias_voltage(s1, batch)

perform_comprehensive_startup_calibration(s, batch) ==
    LET r == bias_loop(batch, 100)
    IN  IF r[2] > 0
        THEN set_bias_voltage(s, (r[1] * ADC_VOLTAGE_RANGE) \div (r[2] * ADC_RESOLUTION),
                              TRUE)
        ELSE s

Idle == [routine |-> "idle", ip |-> 0, i |-> 0]

NoAccess == [field |-> "none", kind |-> "none", locked |-> FALSE]

NoCommand == [name |-> "", comma |-> FALSE, arg1 |-> 0, arg2 |-> 0]

(* The raw values the model's sample source yields: RawFor(mv) is the      *)
(* least raw value that adc_to_voltage converts to mv. With the default    *)
(* bias (1650 mV) 2048 reads as no load, 2079 as 25 mV, 2085 as 30 mV.     *)
RawFor(mv) ==
    (mv * ADC_RESOLUTION + ADC_VOLTAGE_RANGE - 1) \div ADC_VOLTAGE_RANGE
AtBias == RawFor(ADC_BIAS_VOLTAGE)
Load25 == RawFor(ADC_BIAS_VOLTAGE + 25)
Load30 == RawFor(ADC_BIAS_VOLTAGE + 30)

Uniform(raw) == [k |-> 0, first |-> raw, rest |-> raw]

StartupBatches == {Uniform(AtBias)}

(* A load is a distribution of raw values: `share` percent of the reads    *)
(* yield `first`, the others `rest`. Samples(ld, n) is what a loop of n    *)
(* reads gets from it.                                                     *)
NoLoad == [share |-> 0, first |-> AtBias, rest |-> AtBias]

Samples(ld, num_samples) ==
    [k |-> (ld.share * num_samples) \div 100, first |-> ld.first, rest |-> ld.rest]

(* app_main has run start_fallback_ap and created wifi_credentials_task,   *)
(* which listens on its socket.                                            *)
WifiStarted ==
    [state       |-> "recvfrom",
     retry_count |-> 0,
     ap_running  |-> TRUE,
     received    |-> [kind |-> "none", ssid |-> <<>>, password |-> <<>>],
     sent        |-> <<>>]

Booted ==
    /\ \E batch \in StartupBatches :
          cal = [perform_comprehensive_startup_calibration(
                     sct_calibration_init(CalStatics, batch), batch)
                    EXCEPT !.log = <<>>]
    /\ snd = SndStatics
    /\ now = 0
    /\ response = <<>>
    /\ pc = [t \in Tasks |-> Idle]
    /\ holder = {}
    /\ took = [t \in Tasks |-> TRUE]
    /\ access = [t \in Tasks |-> NoAccess]
    /\ ret = [t \in Tasks |-> 0]
    /\ fed = [n |-> 0, first |-> 0, constant |-> TRUE]
    /\ load = NoLoad
    /\ zeroed = 0
    /\ wifi = WifiStarted

Init == Booted /\ command = NoCommand

----------------------------------------------------------------------------
(* Spec: the command handler (udp_receiver_task) receives calibration      *)
(* commands, one datagram at a time, while time passes.                    *)

MaxTime == 3600000
MaxLearn == 1

TimeSteps == {3600000}

CommandBatches ==
    { Uniform(Load25), [k |-> 45, first |-> ADC_FAIL, rest |-> Load30] }

Clear(s) == [s EXCEPT !.log = <<>>]

(* The operation in progress has called auto_calibrate_bias_voltage.       *)
BiasCalibrated(s) ==
    \E k \in DOMAIN s.log :
        s.log[k][1] \in {"Bias voltage calibrated to", "Bias calibration failed"}

(* The handler receives command c while the sample source yields batch.    *)
Respond(c, r) ==
    /\ cal' = r.cal
    /\ snd' = r.snd
    /\ command' = c
    /\ response' = r.response
    /\ zeroed' = (IF BiasCalibrated(r.cal) THEN now ELSE zeroed)
    /\ UNCHANGED <<now, pc, holder, took, access, ret, fed, load, wifi>>

Handle(c, batch) == Respond(c, process_udp_command(Clear(cal), snd, c, batch, now))

Cmd(name) == [name |-> name, comma |-> FALSE, arg1 |-> 0, arg2 |-> 0]
Cmd1(name, a) == [name |-> name, comma |-> FALSE, arg1 |-> a, arg2 |-> 0]
Cmd2(name, a, b) == [name |-> name, comma |-> TRUE, arg1 |-> a, arg2 |-> b]

(* Scale calibrations record learning points; the model stops starting    *)
(* them at this bound.                                                     *)
RoomToLearn == cal.learning_point_count < MaxLearn
Tick ==
    /\ \E d \in TimeSteps : now + d <= MaxTime /\ now' = now + d
    /\ UNCHANGED <<cal, snd, command, response, pc, holder, took, access, ret, fed, load, zeroed, wifi>>

CmdZeroCal ==
    \E batch \in CommandBatches : Handle(Cmd("ZERO_CAL"), batch)

CmdScaleCal ==
    /\ RoomToLearn
    /\ \E known \in {0, 500}, batch \in CommandBatches :
          Handle(Cmd1("SCALE_CAL", known), batch)

CmdManualCal ==
    \/ \E b \in {-1000, 1700}, sc \in {-100, 10000} :
          Handle(Cmd2("MANUAL_CAL", b, sc), Uniform(AtBias))
    \/ Handle(Cmd1("MANUAL_CAL", 1700), Uniform(AtBias))

CmdSetBias ==
    \E b \in {-1000, 50, 1700, 3100} : Handle(Cmd1("SET_BIAS", b), Uniform(AtBias))

CmdSetScale ==
    \E sc \in {-100, 50, 10000, 100100} : Handle(Cmd1("SET_SCALE", sc), Uniform(AtBias))

CmdResetCal == Handle(Cmd("RESET_CAL"), Uniform(AtBias))

CmdLearning ==
    \E name \in {"APPLY_LEARNING", "RESET_LEARNING"} :
        Handle(Cmd(name), Uniform(AtBias))

Next ==
    \/ Tick
    \/ CmdZeroCal
    \/ CmdScaleCal
    \/ CmdManualCal
    \/ CmdSetBias
    \/ CmdSetScale
    \/ CmdResetCal
    \/ CmdLearning

Spec == Init /\ [][Next]_vars

----------------------------------------------------------------------------
(* SpecStore: a task calls the store's setters and getters while another   *)
(* task may be holding calibration_mutex for longer than the 100 ms the    *)
(* caller waits.                                                           *)

StoreBiases == {0, 1650, 1700}
StoreScales == {10000, 20000}

MutexFree == holder = {}

StoreCall(c, s, r) ==
    /\ command' = c
    /\ cal' = s
    /\ ret' = [ret EXCEPT !["handler"] = r]
    /\ took' = [took EXCEPT !["handler"] = MutexFree]
    /\ UNCHANGED <<snd, now, response, pc, holder, access, fed, load, zeroed, wifi>>

CallSetBias ==
    \E v \in StoreBiases :
        StoreCall(Cmd1("set_bias_voltage", v),
                  set_bias_voltage(Clear(cal), v, MutexFree), ret["handler"])

CallGetBias ==
    StoreCall(Cmd("get_bias_voltage"), Clear(cal), get_bias_voltage(cal, MutexFree))

CallSetScale ==
    \E v \in StoreScales :
        StoreCall(Cmd1("set_amps_per_volt", v),
                  set_amps_per_volt(Clear(cal), v, MutexFree), ret["handler"])

CallGetScale ==
    StoreCall(Cmd("get_amps_per_volt"), Clear(cal), get_amps_per_volt(cal, MutexFree))

OtherTakes ==
    /\ MutexFree
    /\ holder' = {"sampler"}
    /\ UNCHANGED <<cal, snd, now, command, response, pc, took, access, ret, fed, load, zeroed, wifi>>

OtherGives ==
    /\ holder = {"sampler"}
    /\ holder' = {}
    /\ UNCHANGED <<cal, snd, now, command, response, pc, took, access, ret, fed, load, zeroed, wifi>>

NextStore ==
    \/ CallSetBias
    \/ CallGetBias
    \/ CallSetScale
    \/ CallGetScale
    \/ OtherTakes
    \/ OtherGives

SpecStore == Init /\ [][NextStore]_vars

----------------------------------------------------------------------------
(* SpecTasks: the three tasks run their routines one instruction at a      *)
(* time. A routine is the sequence of its mutex operations, its accesses   *)
(* to the shared statics and its sampling steps, in source order.          *)

SamplesPerLoop == 2

Sample == [op |-> "sample", field |-> "none", target |-> 0]
Take == [op |-> "take", field |-> "none", target |-> 0]
Give == [op |-> "give", field |-> "none", target |-> 0]
Read(field) == [op |-> "read", field |-> field, target |-> 0]
Write(field) == [op |-> "write", field |-> field, target |-> 0]
Loop(target) == [op |-> "loop", field |-> "none", target |-> target]

(* The two halves of x++ on a static: the load into a register and the     *)
(* store of the incremented register.                                      *)
Load(field) == [op |-> "load", field |-> field, target |-> 0]
Inc(field) == [op |-> "inc", field |-> field, target |-> 0]

(* A second use of a static that was loaded before: the build may load it  *)
(* again or use the register. A branch on the register against             *)
(* MAX_LEARNING_POINTS (an unconditional one when it names no field), and  *)
(* the store of a point at the index in the register.                      *)
Reload(field) == [op |-> "reload", field |-> field, target |-> 0]
Branch(field, target) == [op |-> "branch", field |-> field, target |-> target]
Put == [op |-> "put", field |-> "learning_points", target |-> 0]

(* set_amps_per_volt(blended_scale) with the scale in the register as      *)
(* current_scale                                                           *)
Blend == [op |-> "blend", field |-> "amps_per_volt", target |-> 0]

(* Mutant: the getter returns from inside the critical section.            *)
get_bias_voltage_steps_no_give == << Take, Read("bias_voltage") >>

(* The store's accessors: take, one access, give.                          *)
get_bias_voltage_steps == << Take, Read("bias_voltage"), Give >>
get_amps_per_volt_steps == << Take, Read("amps_per_volt"), Give >>
set_bias_voltage_steps == << Take, Write("bias_voltage"), Give >>
set_amps_per_volt_steps == << Take, Write("amps_per_volt"), Give >>

Program(routine) ==
    CASE routine = "measure_rms_current" ->
            << Sample >> \o get_bias_voltage_steps \o << Loop(1) >>
            \o get_amps_per_volt_steps
            \o << Take, Write("detected_load_amps"), Give >>
      [] routine = "calibrate_with_known_load" ->
            << Sample, Read("bias_voltage"), Loop(1),
               Take, Write("amps_per_volt"), Give >>
      [] routine = "auto_detect_load_current" ->
            << Sample, Read("bias_voltage"), Read("amps_per_volt"), Loop(1),
               Take, Write("detected_load_amps"), Give,
               Take, Write("detected_load_amps"), Give >>
      [] routine = "auto_calibrate_bias_voltage" ->
            << Sample, Loop(1), Take, Write("bias_voltage"), Give >>
      [] routine = "set_bias_voltage" -> set_bias_voltage_steps
      [] routine = "apply_learned_calibration" ->
            get_amps_per_volt_steps \o set_amps_per_volt_steps
      [] routine = "process_current_for_auto_calibration" ->
            << Write("current_history"),
               Load("history_index"), Inc("history_index"),
               Take, Write("detected_load_amps"), Give,
               Load("successful_recognitions"), Inc("successful_recognitions"),
               Load("auto_cal_count"), Inc("auto_cal_count") >>
      [] routine = "apply_learned_sums" ->
            << Take, Load("amps_per_volt"), Give, Take, Blend, Give >>
      [] routine = "set_amps_per_volt" -> set_amps_per_volt_steps
      [] routine = "learn_from_calibration" ->
            << Load("learning_point_count"), Branch("learning_point_count", 8),
               Reload("learning_point_count"), Put,
               Reload("learning_point_count"), Inc("learning_point_count"),
               Branch("none", 11),
               Load("learning_point_index"), Put, Inc("learning_point_index") >>
      [] routine = "reset_learning_data" ->
            << Write("learning_points"), Write("learning_point_count"),
               Write("learning_point_index") >>
      [] routine = "auto_recognize_and_calibrate" ->
            << Load("successful_recognitions"), Inc("successful_recognitions") >>
      [] routine = "auto_calibration_task" ->
            << Load("auto_cal_count"), Inc("auto_cal_count") >>
      [] routine = "reset_auto_cal_statistics" ->
            << Write("auto_cal_count"), Write("successful_recognitions"),
               Write("failed_recognitions"), Write("last_auto_cal_time") >>

RoutinesOf(t) ==
    CASE t = "sampler" -> {"measure_rms_current"}
      [] t = "handler" -> {"set_bias_voltage", "calibrate_with_known_load",
                           "auto_detect_load_current"}
      [] t = "controller" -> {"auto_calibrate_bias_voltage",
                              "apply_learned_calibration"}

(* The values the routines compute and store.                              *)
Written(field) ==
    CASE field = "bias_voltage" -> {1700}
      [] field = "amps_per_volt" -> {10000}
      [] field = "detected_load_amps" -> {500}
      [] field = "current_history" ->
            {[cal.current_history EXCEPT ![cal.history_index] = 500]}
      [] field = "learning_points" ->
            {[i \in 0..(MAX_LEARNING_POINTS - 1) |-> ZeroPoint]}
      [] field \in {"auto_cal_count", "successful_recognitions",
                    "failed_recognitions", "last_auto_cal_time",
                    "learning_point_count", "learning_point_index"} -> {0}

Running(t) == pc[t] # Idle

Instr(t) == Program(pc[t].routine)[pc[t].ip]

Advanced(t, k) ==
    IF pc[t].ip + k > Len(Program(pc[t].routine))
    THEN Idle
    ELSE [pc[t] EXCEPT !.ip = @ + k]

StartRoutine(t) ==
    /\ ~Running(t)
    /\ \E r \in RoutinesOf(t) : pc' = [pc EXCEPT ![t] = [routine |-> r, ip |-> 1, i |-> 0]]
    /\ access' = [access EXCEPT ![t] = NoAccess]
    /\ UNCHANGED <<cal, snd, now, command, response, holder, took, ret, fed, load, zeroed, wifi>>

(* adc_oneshot_read and the arithmetic on the sample                       *)
SampleStep(t) ==
    /\ Running(t) /\ Instr(t).op = "sample"
    /\ pc' = [pc EXCEPT ![t] = Advanced(t, 1)]
    /\ access' = [access EXCEPT ![t] = NoAccess]
    /\ UNCHANGED <<cal, snd, now, command, response, holder, took, ret, fed, load, zeroed, wifi>>

(* vTaskDelay at the end of a sampling loop's body, then the loop test     *)
LoopStep(t) ==
    /\ Running(t) /\ Instr(t).op = "loop"
    /\ pc' = [pc EXCEPT ![t] =
                 IF pc[t].i + 1 < SamplesPerLoop
                 THEN [pc[t] EXCEPT !.ip = Instr(t).target, !.i = @ + 1]
                 ELSE [Advanced(t, 1) EXCEPT !.i = 0]]
    /\ access' = [access EXCEPT ![t] = NoAccess]
    /\ UNCHANGED <<cal, snd, now, command, response, holder, took, ret, fed, load, zeroed, wifi>>

(* xSemaphoreTake returns pdTRUE                                           *)
TakeStep(t) ==
    /\ Running(t) /\ Instr(t).op = "take"
    /\ holder = {}
    /\ holder' = holder \cup {t}
    /\ took' = [took EXCEPT ![t] = TRUE]
    /\ pc' = [pc EXCEPT ![t] = Advanced(t, 1)]
    /\ access' = [access EXCEPT ![t] = NoAccess]
    /\ UNCHANGED <<cal, snd, now, command, response, ret, fed, load, zeroed, wifi>>

(* xSemaphoreTake returns pdFALSE after 100 ms: the body of the if is      *)
(* skipped                                                                 *)
TakeTimeout(t) ==
    /\ Running(t) /\ Instr(t).op = "take"
    /\ holder # {}
    /\ took' = [took EXCEPT ![t] = FALSE]
    /\ pc' = [pc EXCEPT ![t] = Advanced(t, 3)]
    /\ access' = [access EXCEPT ![t] = NoAccess]
    /\ UNCHANGED <<cal, snd, now, command, response, holder, ret, fed, load, zeroed, wifi>>

ReadStep(t) ==
    /\ Running(t) /\ Instr(t).op = "read"
    /\ access' = [access EXCEPT ![t] =
                     [field |-> Instr(t).field, kind |-> "read", locked |-> t \in holder]]
    /\ pc' = [pc EXCEPT ![t] = Advanced(t, 1)]
    /\ UNCHANGED <<cal, snd, now, command, response, holder, took, ret, fed, load, zeroed, wifi>>

WriteStep(t) ==
    /\ Running(t) /\ Instr(t).op = "write"
    /\ \E v \in Written(Instr(t).field) : cal' = [cal EXCEPT ![Instr(t).field] = v]
    /\ access' = [access EXCEPT ![t] =
                     [field |-> Instr(t).field, kind |-> "write", locked |-> t \in holder]]
    /\ pc' = [pc EXCEPT ![t] = Advanced(t, 1)]
    /\ UNCHANGED <<snd, now, command, response, holder, took, ret, fed, load, zeroed, wifi>>

GiveStep(t) ==
    /\ Running(t) /\ Instr(t).op = "give"
    /\ holder' = holder \ {t}
    /\ pc' = [pc EXCEPT ![t] = Advanced(t, 1)]
    /\ access' = [access EXCEPT ![t] = NoAccess]
    /\ UNCHANGED <<cal, snd, now, command, response, took, ret, fed, load, zeroed, wifi>>

TaskStep(t) ==
    \/ StartRoutine(t)
    \/ SampleStep(t)
    \/ LoopStep(t)
    \/ TakeStep(t)
    \/ TakeTimeout(t)
    \/ ReadStep(t)
    \/ WriteStep(t)
    \/ GiveStep(t)

NextTasks == \E t \in Tasks : TaskStep(t)

SpecTasks == Init /\ [][NextTasks]_vars

----------------------------------------------------------------------------
(* SpecRecognize: the handler answers RECOGNIZE_CURRENT queries.           *)

MaxQuery == 1700

(* A query for some current is in flight.                                  *)
InitRecognize ==
    /\ Booted
    /\ \E x \in 0..MaxQuery : command = Cmd1("RECOGNIZE_CURRENT", x)

CmdRecognizeCurrent ==
    /\ response = <<>>
    /\ Handle(command, Uniform(AtBias))

NextRecognize == CmdRecognizeCurrent

SpecRecognize == InitRecognize /\ [][NextRecognize]_vars

----------------------------------------------------------------------------
(* SpecAuto: the handler detects the load (AUTO_DETECT), runs device       *)
(* recognition on the detected value (AUTO_RECOGNIZE) and sets the         *)
(* sensitivity.                                                            *)

MaxDetect == 2
MaxCount == 2

(* Loads of 5.00 A, 5.50 A and none at the default calibration.            *)
DetectBatches ==
    { Uniform(Load25), [k |-> 10, first |-> Load25, rest |-> Load30], Uniform(AtBias) }

CmdAutoDetect ==
    /\ cal.history_index < MaxDetect
    /\ \E batch \in DetectBatches : Handle(Cmd("AUTO_DETECT"), batch)

CmdAutoRecognize ==
    /\ cal.successful_recognitions + cal.failed_recognitions < MaxCount
    /\ \E batch \in CommandBatches : Handle(Cmd("AUTO_RECOGNIZE"), batch)

CmdSensitivity ==
    \E x \in {70, 90} : Handle(Cmd1("AUTO_CAL_SENSITIVITY", x), Uniform(AtBias))

NextAuto ==
    \/ CmdAutoDetect
    \/ CmdAutoRecognize
    \/ CmdSensitivity

SpecAuto == Init /\ [][NextAuto]_vars

----------------------------------------------------------------------------
(* SpecDetector: the sampler hands its readings to the stability detector  *)
(* (process_current_for_auto_calibration) while time passes and the        *)
(* handler receives ZERO_CAL and RESET_CAL.                                *)

MaxFeed == 52

(* No load, and loads at both ends and inside the range the detector       *)
(* accepts.                                                                *)
Readings == {0, AUTO_CAL_MIN_CURRENT, 500, AUTO_CAL_MAX_CURRENT}

last_reading == cal.current_history[(cal.history_index + HISTORY_SIZE - 1) % HISTORY_SIZE]

(* The load changes at most once, after a full window of equal readings.   *)
Feed ==
    /\ fed.n < MaxFeed
    /\ \E c \in Readings :
          /\ \/ fed.n = 0
             \/ c = last_reading
             \/ fed.constant /\ cal.history_full
          /\ cal' = process_current_for_auto_calibration(Clear(cal), c,
                                                         Uniform(Load25), now)
          /\ fed' = [n |-> fed.n + 1,
                     first |-> IF fed.n = 0 THEN c ELSE fed.first,
                     constant |-> fed.constant /\ (fed.n = 0 \/ c = fed.first)]
    /\ UNCHANGED <<snd, now, command, response, pc, holder, took, access, ret, load, zeroed, wifi>>

CmdZeroCalDetector == Handle(Cmd("ZERO_CAL"), Uniform(Load30))

NextDetector ==
    \/ Feed
    \/ Tick
    \/ CmdZeroCalDetector
    \/ CmdResetCal

SpecDetector == Init /\ [][NextDetector]_vars

----------------------------------------------------------------------------
(* SpecControl: the handler sets the sensitivity and the learning rate and *)
(* runs detection and recognition, time passes, and the controller         *)
(* (auto_calibration_task) runs iterations of its loop.                    *)

(* Values on both sides of the limits of the commands and of the           *)
(* adaptation.                                                             *)
SensitivityArgs == {-1, 0, 31, 100, 101}
RateArgs == {-1, 0, 100, 101}

(* The handler detects a load of 5.00 A, once, and runs recognition on the *)
(* detected value.                                                         *)
CmdDetectLoad ==
    /\ cal.history_index = 0
    /\ Handle(Cmd("AUTO_DETECT"), Uniform(Load25))

CmdRecognizeLoad ==
    /\ cal.successful_recognitions + cal.failed_recognitions < MaxCount
    /\ Handle(Cmd("AUTO_RECOGNIZE"), Uniform(Load25))

CmdSensitivityAny ==
    \E x \in SensitivityArgs :
        Handle(Cmd1("AUTO_CAL_SENSITIVITY", x), Uniform(AtBias))

CmdLearningRate ==
    \E x \in RateArgs :
        Handle(Cmd1("AUTO_CAL_LEARNING_RATE", x), Uniform(AtBias))

(* One iteration of the loop of auto_calibration_task; no datagram is      *)
(* handled in the step.                                                    *)
Iterate ==
    /\ cal.auto_calibration_enabled
    /\ cal' = auto_calibration_iteration(Clear(cal), Uniform(AtBias), now)
    /\ command' = NoCommand
    /\ response' = <<>>
    /\ zeroed' = (IF BiasCalibrated(cal') THEN now ELSE zeroed)
    /\ UNCHANGED <<snd, now, pc, holder, took, access, ret, fed, load, wifi>>

NextControl ==
    \/ CmdSensitivityAny
    \/ CmdLearningRate
    \/ CmdDetectLoad
    \/ CmdRecognizeLoad
    \/ Tick
    \/ Iterate

SpecControl == Init /\ [][NextControl]_vars

----------------------------------------------------------------------------
(* SpecStable: the sampler hands its readings to the stability detector    *)
(* while time passes in steps a little longer than DEVICE_STABLE_TIME.     *)

MaxStable == 2400000

StableSteps == {200000}

TickStable ==
    /\ \E d \in StableSteps : now + d <= MaxStable /\ now' = now + d
    /\ UNCHANGED <<cal, snd, command, response, pc, holder, took, access, ret, fed, load, zeroed, wifi>>

NextStable ==
    \/ Feed
    \/ TickStable

SpecStable == Init /\ [][NextStable]_vars

----------------------------------------------------------------------------
(* SpecRecal: with no load connected the sampler hands readings of zero to *)
(* the detector, the handler receives ZERO_CAL, time passes and the        *)
(* controller runs iterations of its loop.                                 *)

MaxZeros == 304
MaxRecal == 3720000

(* A little more than AUTO_CAL_ZERO_INTERVAL_MS.                           *)
RecalSteps == {1860000}

FeedZero ==
    /\ fed.n < MaxZeros
    /\ cal' = process_current_for_auto_calibration(Clear(cal), 0, Uniform(AtBias), now)
    /\ fed' = [fed EXCEPT !.n = @ + 1]
    /\ command' = NoCommand
    /\ response' = <<>>
    /\ UNCHANGED <<snd, now, pc, holder, took, access, ret, load, zeroed, wifi>>

TickRecal ==
    /\ \E d \in RecalSteps : now + d <= MaxRecal /\ now' = now + d
    /\ command' = NoCommand
    /\ response' = <<>>
    /\ UNCHANGED <<cal, snd, pc, holder, took, access, ret, fed, load, zeroed, wifi>>

(* The handler receives ZERO_CAL once the plug has long been idle.         *)
CmdZeroCalIdle ==
    /\ cal.consecutive_zero_readings > AUTO_CAL_CONSECUTIVE_ZERO_COUNT
    /\ Handle(Cmd("ZERO_CAL"), Uniform(AtBias))

NextRecal ==
    \/ FeedZero
    \/ TickRecal
    \/ CmdZeroCalIdle
    \/ Iterate

SpecRecal == Init /\ [][NextRecal]_vars

----------------------------------------------------------------------------
(* SpecLearn: one task calls learn_from_calibration, a millisecond apart,  *)
(* from the state after construction.                                      *)

MaxCalls == 104
MaxAutoLearn == 1

LearnCurrents == {500}

(* The auto-generated points the history holds.                            *)
AutoPoints(s) ==
    {i \in 0..(MAX_LEARNING_POINTS - 1) : s.learning_points[i].auto_generated}

LearnCall(expected_current, manual) ==
    /\ cal' = learn_from_calibration(Clear(cal), expected_current,
                                     (expected_current * 1000) \div cal.amps_per_volt,
                                     manual, now)
    /\ command' = Cmd2("learn_from_calibration", expected_current,
                       IF manual THEN 1 ELSE 0)
    /\ now' = now + 1
    /\ UNCHANGED <<snd, response, pc, holder, took, access, ret, fed, load, zeroed, wifi>>

LearnManual ==
    /\ now < MaxCalls
    /\ \E c \in LearnCurrents : LearnCall(c, TRUE)

LearnAuto ==
    /\ now < MaxCalls
    /\ Cardinality(AutoPoints(cal)) < MaxAutoLearn
    /\ \E c \in LearnCurrents : LearnCall(c, FALSE)

NextLearn ==
    \/ LearnManual
    \/ LearnAuto

SpecLearn == Init /\ [][NextLearn]_vars

----------------------------------------------------------------------------
(* SpecApply: points are recorded in the learning history                  *)
(* (learn_from_calibration), the handler sets the scale and the learning   *)
(* rate and applies the learned calibration (APPLY_LEARNING), up to a day  *)
(* apart.                                                                  *)

MaxPoints == 3
MaxApplyTime == 86400000

(* <<expected_current, measured_voltage>>: 200 A/V twice, 250 A/V, and a   *)
(* point whose voltage is negligible.                                      *)
ApplyPoints == { <<500, 25>>, <<1000, 50>>, <<1000, 40>>, <<500, 0>> }
ApplyScales == {10000, 30000, 40000}
ApplyRates == {3, 100}

LearnPoint ==
    /\ cal.learning_point_count < MaxPoints
    /\ \E p \in ApplyPoints, manual \in BOOLEAN :
          /\ cal' = learn_from_calibration(Clear(cal), p[1], p[2], manual, now)
          /\ command' = Cmd2("learn_from_calibration", p[1], p[2])
    /\ response' = <<>>
    /\ UNCHANGED <<snd, now, pc, holder, took, access, ret, fed, load, zeroed, wifi>>

CmdSetScaleApply ==
    \E sc \in ApplyScales : Handle(Cmd1("SET_SCALE", sc), Uniform(AtBias))

CmdLearningRateApply ==
    \E x \in ApplyRates : Handle(Cmd1("AUTO_CAL_LEARNING_RATE", x), Uniform(AtBias))

(* The learned calibration is applied to a scale that was set, not to one  *)
(* it has blended already.                                                 *)
CmdApplyLearning ==
    /\ cal.amps_per_volt \in ApplyScales
    /\ Handle(Cmd("APPLY_LEARNING"), Uniform(AtBias))

TickDay ==
    /\ now + DAY_MS <= MaxApplyTime
    /\ now' = now + DAY_MS
    /\ command' = NoCommand
    /\ response' = <<>>
    /\ UNCHANGED <<cal, snd, pc, holder, took, access, ret, fed, load, zeroed, wifi>>

NextApply ==
    \/ LearnPoint
    \/ CmdSetScaleApply
    \/ CmdLearningRateApply
    \/ CmdApplyLearning
    \/ TickDay

SpecApply == Init /\ [][NextApply]_vars

----------------------------------------------------------------------------
(* SpecShared: the detector, the recognition and the counters as the three *)
(* tasks run them, statement by statement. The sampler reaches             *)
(* process_current_for_auto_calibration from measure_rms_current, the      *)
(* handler reaches it from AUTO_DETECT through auto_detect_load_current;   *)
(* AUTO_RECOGNIZE runs auto_recognize_and_calibrate and RESET_STATS runs   *)
(* reset_auto_cal_statistics; the controller counts its zero               *)
(* recalibrations.                                                         *)

MaxIncrements == 2

SharedRoutinesOf(t) ==
    CASE t = "sampler" -> {"process_current_for_auto_calibration"}
      [] t = "handler" -> {"process_current_for_auto_calibration",
                           "auto_recognize_and_calibrate",
                           "reset_auto_cal_statistics"}
      [] t = "controller" -> {"auto_calibration_task"}

StartShared(t) ==
    /\ ~Running(t)
    /\ cal.auto_calibration_enabled
    /\ cal.auto_cal_count < MaxIncrements
    /\ cal.successful_recognitions < MaxIncrements
    /\ cal.history_index < MaxIncrements
    /\ \E r \in SharedRoutinesOf(t) : pc' = [pc EXCEPT ![t] = [routine |-> r, ip |-> 1, i |-> 0]]
    /\ access' = [access EXCEPT ![t] = NoAccess]
    /\ UNCHANGED <<cal, snd, now, command, response, holder, took, ret, fed, load, zeroed, wifi>>

(* the load of a static into a register                                    *)
LoadStep(t) ==
    /\ Running(t) /\ Instr(t).op = "load"
    /\ ret' = [ret EXCEPT ![t] = cal[Instr(t).field]]
    /\ access' = [access EXCEPT ![t] =
                     [field |-> Instr(t).field, kind |-> "read", locked |-> t \in holder]]
    /\ pc' = [pc EXCEPT ![t] = Advanced(t, 1)]
    /\ UNCHANGED <<cal, snd, now, command, response, holder, took, fed, load, zeroed, wifi>>

(* the store of the register plus one; the ring indices wrap              *)
IncStep(t) ==
    /\ Running(t) /\ Instr(t).op = "inc"
    /\ cal' = [cal EXCEPT ![Instr(t).field] =
                  IF Instr(t).field = "history_index"
                  THEN (ret[t] + 1) % HISTORY_SIZE
                  ELSE IF Instr(t).field = "learning_point_index"
                  THEN (ret[t] + 1) % MAX_LEARNING_POINTS
                  ELSE ret[t] + 1]
    /\ access' = [access EXCEPT ![t] =
                     [field |-> Instr(t).field, kind |-> "write", locked |-> t \in holder]]
    /\ pc' = [pc EXCEPT ![t] = Advanced(t, 1)]
    /\ UNCHANGED <<snd, now, command, response, holder, took, ret, fed, load, zeroed, wifi>>

NextShared ==
    \E t \in Tasks :
        \/ StartShared(t)
        \/ LoadStep(t)
        \/ IncStep(t)
        \/ WriteStep(t)
        \/ TakeStep(t)
        \/ TakeTimeout(t)
        \/ GiveStep(t)

SpecShared == Init /\ [][NextShared]_vars

----------------------------------------------------------------------------
(* SpecLifecycle: the controller tasks. sct_calibration_init creates one   *)
(* at boot; set_auto_calibration(true) creates another at every            *)
(* AUTO_CAL_ON. A task that is not in an iteration is in vTaskDelay or has *)
(* not run yet (Idle): its next step is the test of the while loop.        *)

MaxControllers == 3

Spawned == {"controller2", "controller3"}

Controllers == {"controller"} \cup Spawned

Deleted == [routine |-> "vTaskDelete", ip |-> 0, i |-> 0]

InIteration == [routine |-> "auto_calibration_task", ip |-> 1, i |-> 0]

Created == DOMAIN pc \cap Controllers

Alive(t) == t \in Created /\ pc[t] # Deleted

(* AUTO_CAL_ON: set_auto_calibration(true), then xTaskCreate               *)
CmdAutoCalOn ==
    /\ Cardinality(Created) < MaxControllers
    /\ cal' = process_udp_command(Clear(cal), snd, Cmd("AUTO_CAL_ON"), Uniform(AtBias), now).cal
    /\ command' = Cmd("AUTO_CAL_ON")
    /\ response' = <<"AUTO_CAL_ON", "SUCCESS">>
    /\ \E t \in Spawned \ Created : pc' = (t :> Idle) @@ pc
    /\ UNCHANGED <<snd, now, holder, took, access, ret, fed, load, zeroed, wifi>>

CmdAutoCalOff == Handle(Cmd("AUTO_CAL_OFF"), Uniform(AtBias))

(* Mutant: while (true), the task never looks at the flag.                 *)
ControllerTest_forever(t) ==
    /\ Alive(t) /\ pc[t] = Idle
    /\ pc' = [pc EXCEPT ![t] = InIteration]
    /\ command' = NoCommand
    /\ response' = <<>>
    /\ UNCHANGED <<cal, snd, now, holder, took, access, ret, fed, load, zeroed, wifi>>

(* while (auto_calibration_enabled): into the body, or out of the loop to  *)
(* vTaskDelete                                                             *)
ControllerTest(t) ==
    /\ Alive(t) /\ pc[t] = Idle
    /\ pc' = [pc EXCEPT ![t] = IF cal.auto_calibration_enabled THEN InIteration ELSE Deleted]
    /\ command' = NoCommand
    /\ response' = <<>>
    /\ UNCHANGED <<cal, snd, now, holder, took, access, ret, fed, load, zeroed, wifi>>

(* the body of the loop, up to vTaskDelay                                  *)
ControllerBody(t) ==
    /\ Alive(t) /\ pc[t] = InIteration
    /\ cal' = auto_calibration_iteration(Clear(cal), Uniform(AtBias), now)
    /\ pc' = [pc EXCEPT ![t] = Idle]
    /\ command' = NoCommand
    /\ response' = <<"auto_calibration_task", t>>
    /\ zeroed' = (IF BiasCalibrated(cal') THEN now ELSE zeroed)
    /\ UNCHANGED <<snd, now, holder, took, access, ret, fed, load, wifi>>

ControllerStep(t) == ControllerTest(t) \/ ControllerBody(t)

NextLifecycle ==
    \/ CmdAutoCalOn
    \/ CmdAutoCalOff
    \/ \E t \in Controllers : ControllerTest(t)
    \/ \E t \in Controllers : ControllerBody(t)

SpecLifecycle == Init /\ [][NextLifecycle]_vars

(* The scheduler runs every task that is ready: no controller task waits   *)
(* forever at its loop test or in its body.                                *)
SpecLifecycleFair ==
    SpecLifecycle /\ \A t \in Controllers : WF_vars(ControllerStep(t))

----------------------------------------------------------------------------
(* SpecLearnRace: learn_from_calibration as the sampler (automatic points) *)
(* and the handler (manual points) run it, statement by statement, and     *)
(* reset_learning_data on the handler. Up to PriorCalls points the calls   *)
(* run one at a time, one millisecond apart; from there on they            *)
(* interleave.                                                             *)

PriorCalls == 48
MaxOverwrites == 2
MaxAfterReset == 1

(* a call that runs alone, from its first statement to its last            *)
LearnAlone ==
    /\ \A t \in Tasks : ~Running(t)
    /\ now < PriorCalls
    /\ cal' = learn_from_calibration(Clear(cal), 500, 25, TRUE, now)
    /\ now' = now + 1
    /\ command' = Cmd2("learn_from_calibration", 500, 25)
    /\ response' = <<>>
    /\ UNCHANGED <<snd, pc, holder, took, access, ret, fed, load, zeroed, wifi>>

Learners == {"sampler", "handler"}

StartLearn(t) ==
    /\ ~Running(t)
    /\ cal.learning_point_count >= PriorCalls \/ cal.learning_point_count < MaxAfterReset
    /\ cal.learning_point_index < MaxOverwrites
    /\ pc' = [pc EXCEPT ![t] = [routine |-> "learn_from_calibration", ip |-> 1, i |-> 0]]
    /\ access' = [access EXCEPT ![t] = NoAccess]
    /\ UNCHANGED <<cal, snd, now, command, response, holder, took, ret, fed, load, zeroed, wifi>>

StartReset ==
    /\ ~Running("handler")
    /\ cal.learning_point_count >= PriorCalls
    /\ pc' = [pc EXCEPT !["handler"] = [routine |-> "reset_learning_data", ip |-> 1, i |-> 0]]
    /\ access' = [access EXCEPT !["handler"] = NoAccess]
    /\ UNCHANGED <<cal, snd, now, command, response, holder, took, ret, fed, load, zeroed, wifi>>

(* the register against MAX_LEARNING_POINTS, or an unconditional jump; a   *)
(* target past the last statement returns                                  *)
BranchStep(t) ==
    /\ Running(t) /\ Instr(t).op = "branch"
    /\ pc' = [pc EXCEPT ![t] =
                 IF Instr(t).field = "none" \/ ret[t] >= MAX_LEARNING_POINTS
                 THEN Advanced(t, Instr(t).target - pc[t].ip)
                 ELSE Advanced(t, 1)]
    /\ access' = [access EXCEPT ![t] = NoAccess]
    /\ UNCHANGED <<cal, snd, now, command, response, holder, took, ret, fed, load, zeroed, wifi>>

(* the static is loaded again, or the register still holds the earlier     *)
(* load                                                                    *)
ReloadStep(t) ==
    /\ Running(t) /\ Instr(t).op = "reload"
    /\ \E v \in {ret[t], cal[Instr(t).field]} : ret' = [ret EXCEPT ![t] = v]
    /\ access' = [access EXCEPT ![t] =
                     [field |-> Instr(t).field, kind |-> "read", locked |-> t \in holder]]
    /\ pc' = [pc EXCEPT ![t] = Advanced(t, 1)]
    /\ UNCHANGED <<cal, snd, now, command, response, holder, took, fed, load, zeroed, wifi>>

(* learning_points[index] = (calibration_point_t){...}: an index past the  *)
(* array writes the memory that follows it                                 *)
PutStep(t) ==
    /\ Running(t) /\ Instr(t).op = "put"
    /\ cal' = [cal EXCEPT !.learning_points =
                  (ret[t] :> NewPoint(500, 25, t = "handler", now)) @@ @]
    /\ access' = [access EXCEPT ![t] =
                     [field |-> "learning_points", kind |-> "write", locked |-> t \in holder]]
    /\ pc' = [pc EXCEPT ![t] = Advanced(t, 1)]
    /\ UNCHANGED <<snd, now, command, response, holder, took, ret, fed, load, zeroed, wifi>>

NextLearnRace ==
    \/ LearnAlone
    \/ StartReset
    \/ \E t \in Learners :
        \/ StartLearn(t)
        \/ LoadStep(t)
        \/ BranchStep(t)
        \/ ReloadStep(t)
        \/ PutStep(t)
        \/ IncStep(t)
        \/ WriteStep(t)

SpecLearnRace == Init /\ [][NextLearnRace]_vars

----------------------------------------------------------------------------
(* SpecApplyRace: apply_learned_calibration on the controller, from its    *)
(* get_amps_per_volt to its set_amps_per_volt, against SET_SCALE on the    *)
(* handler. The points are learned while both tasks are between routines.  *)

RaceScales == {10000, SCT_013_THEORETICAL_SCALE}

points_to_use(s) ==
    IF s.learning_point_count < MAX_LEARNING_POINTS
    THEN s.learning_point_count
    ELSE MAX_LEARNING_POINTS

LearnBetween ==
    /\ \A t \in Tasks : ~Running(t)
    /\ LearnPoint

(* apply_learned_calibration up to the call of get_amps_per_volt, whose    *)
(* local scale starts at 0.0f                                              *)
StartApplyLearned ==
    /\ ~Running("controller")
    /\ cal.amps_per_volt \in RaceScales
    /\ cal.learning_point_count >= MIN_LEARNING_POINTS
    /\ learned_sums(cal, now, points_to_use(cal))[2] > 1000
    /\ learned_sums(cal, now, points_to_use(cal))[3] > 100
    /\ pc' = [pc EXCEPT !["controller"] = [routine |-> "apply_learned_sums", ip |-> 1, i |-> 0]]
    /\ ret' = [ret EXCEPT !["controller"] = 0]
    /\ access' = [access EXCEPT !["controller"] = NoAccess]
    /\ UNCHANGED <<cal, snd, now, command, response, holder, took, fed, load, zeroed, wifi>>

(* SET_SCALE: set_amps_per_volt on the handler                             *)
StartSetScale ==
    /\ ~Running("handler")
    /\ pc' = [pc EXCEPT !["handler"] = [routine |-> "set_amps_per_volt", ip |-> 1, i |-> 0]]
    /\ access' = [access EXCEPT !["handler"] = NoAccess]
    /\ UNCHANGED <<cal, snd, now, command, response, holder, took, ret, fed, load, zeroed, wifi>>

blended_from(s, sums, current_scale) ==
    apply_learned_scale(s, scale_quotient(sums[1], sums[2]), current_scale)

(* the range test on the scale that get_amps_per_volt returned, and the    *)
(* store of the blend                                                      *)
BlendStep(t) ==
    /\ Running(t) /\ Instr(t).op = "blend"
    /\ cal' = blended_from(Clear(cal), learned_sums(cal, now, points_to_use(cal)), ret[t])
    /\ access' = [access EXCEPT ![t] =
                     [field |-> "amps_per_volt", kind |-> "write", locked |-> t \in holder]]
    /\ pc' = [pc EXCEPT ![t] = Advanced(t, 1)]
    /\ UNCHANGED <<snd, now, command, response, holder, took, ret, fed, load, zeroed, wifi>>

Appliers == {"controller", "handler"}

NextApplyRace ==
    \/ LearnBetween
    \/ StartApplyLearned
    \/ StartSetScale
    \/ \E t \in Appliers :
        \/ TakeStep(t)
        \/ TakeTimeout(t)
        \/ LoadStep(t)
        \/ BlendStep(t)
        \/ WriteStep(t)
        \/ GiveStep(t)

SpecApplyRace == Init /\ [][NextApplyRace]_vars

----------------------------------------------------------------------------
(* SpecLoad: loads are connected to the sensor; the handler calibrates the *)
(* bias and the scale on the load that is connected and the sampler        *)
(* measures it.                                                            *)

MaxMeasure == 1

Steady(raw) == [share |-> 0, first |-> raw, rest |-> raw]

(* A load whose AC voltage swings between 10 mV and 100 mV.                *)
Swinging ==
    [share |-> 50, first |-> RawFor(ADC_BIAS_VOLTAGE + 10),
     rest |-> RawFor(ADC_BIAS_VOLTAGE + 100)]

(* A load on which `share` percent of the reads fail.                      *)
Failing(share) == [share |-> share, first |-> ADC_FAIL, rest |-> Load30]

Loads == { NoLoad, Steady(Load25), Swinging, Failing(78), Failing(80) }

(* Another load is connected. The record of the last command is cleared    *)
(* with it, so that command and response always speak of the present load. *)
Connect ==
    /\ \E ld \in Loads \ {load} : load' = ld
    /\ command' = NoCommand
    /\ response' = <<>>
    /\ UNCHANGED <<cal, snd, now, pc, holder, took, access, ret, fed, zeroed, wifi>>

CmdBiasOnLoad ==
    \E name \in {"ZERO_CAL", "RECALIBRATE_BIAS"} :
        Handle(Cmd(name), Samples(load, 100))

CmdScaleOnLoad ==
    /\ RoomToLearn
    /\ \E name \in {"SCALE_CAL", "CALIBRATE", "CAL_KNOWN"}, known \in {0, 500, 10100} :
          Handle(Cmd1(name, known), Samples(load, 50))

(* The sampler's measure_rms_current returns r.                            *)
Return(r) ==
    /\ cal' = r.cal
    /\ snd' = r.snd
    /\ ret' = [ret EXCEPT !["sampler"] = r.ret]
    /\ UNCHANGED <<now, command, response, pc, holder, took, access, fed, load, zeroed, wifi>>

Measure ==
    /\ snd.total_measurements < MaxMeasure
    /\ Return(measure_rms_current(Clear(cal), snd, Samples(load, RMS_BUFFER_SIZE), now))

NextLoad ==
    \/ Connect
    \/ CmdBiasOnLoad
    \/ CmdScaleOnLoad
    \/ Measure

SpecLoad == Init /\ [][NextLoad]_vars

----------------------------------------------------------------------------
(* SpecAbort: the automatic calibrations against a sample source that may  *)
(* fail. A source is connected on which no read fails, or 49, 50 or 80 of  *)
(* 100 do; the sampler hands equal readings (no load, or 5 A) to the       *)
(* detector, time passes and the controller runs iterations of its loop.   *)

MaxAbortFeed == 152
MaxAbortLoad == 52

AbortReadings == {0, 500}

AbortLoads == { Steady(Load25), Failing(49), Failing(50), Failing(80) }

ConnectAbort ==
    /\ \E ld \in AbortLoads : load' = ld
    /\ load' # load
    /\ UNCHANGED <<cal, snd, now, command, response, pc, holder, took, access, ret, fed, zeroed, wifi>>

FeedAbort ==
    /\ load \in AbortLoads
    /\ fed.n < MaxAbortFeed
    /\ \E c \in AbortReadings :
          /\ fed.n = 0 \/ c = fed.first
          /\ c # 0 => fed.n < MaxAbortLoad
          /\ cal' = process_current_for_auto_calibration(Clear(cal), c,
                                                         Samples(load, 100), now)
          /\ fed' = [n |-> fed.n + 1,
                     first |-> IF fed.n = 0 THEN c ELSE fed.first,
                     constant |-> TRUE]
    /\ command' = NoCommand
    /\ response' = <<>>
    /\ UNCHANGED <<snd, now, pc, holder, took, access, ret, load, zeroed, wifi>>

IterateAbort ==
    /\ load \in AbortLoads
    /\ cal.auto_calibration_enabled
    /\ cal' = auto_calibration_iteration(Clear(cal), Samples(load, 100), now)
    /\ command' = NoCommand
    /\ response' = <<>>
    /\ zeroed' = (IF BiasCalibrated(cal') THEN now ELSE zeroed)
    /\ UNCHANGED <<snd, now, pc, holder, took, access, ret, fed, load, wifi>>

NextAbort ==
    \/ ConnectAbort
    \/ FeedAbort
    \/ TickRecal
    \/ IterateAbort

SpecAbort == Init /\ [][NextAbort]_vars

----------------------------------------------------------------------------
(* SpecGap: a load of 2 A fills the detector's window; from then on the    *)
(* readings are 2 A, or near zero (the load is switched off for a moment), *)
(* or at the near-zero threshold, and time passes.                         *)

MaxGapFeed == 54

GapReadings == {0, 4, AUTO_CAL_ZERO_THRESHOLD, 200}

FeedGap ==
    /\ fed.n < MaxGapFeed
    /\ \E c \in GapReadings :
          /\ fed.n < HISTORY_SIZE => c = 200
          /\ cal' = process_current_for_auto_calibration(Clear(cal), c,
                                                         Uniform(Load25), now)
          /\ fed' = [n |-> fed.n + 1,
                     first |-> IF fed.n = 0 THEN c ELSE fed.first,
                     constant |-> fed.constant /\ (fed.n = 0 \/ c = fed.first)]
    /\ UNCHANGED <<snd, now, command, response, pc, holder, took, access, ret, load, zeroed, wifi>>

NextGap ==
    \/ FeedGap
    \/ TickStable

SpecGap == Init /\ [][NextGap]_vars

----------------------------------------------------------------------------
(* SpecMeasure: the sampler runs measure_rms_current on the source that is *)
(* connected (no load, 5 A, a source on which 78 or all of the 100 reads   *)
(* fail) while the handler receives the commands that switch the           *)
(* auto-calibration and the auto-detection and that run a detection pass.  *)
(* fed.n counts the calls of measure_rms_current.                          *)

MaxSamplerCalls == 51
DetectionPeriod == 50

MeasureLoads == { NoLoad, Steady(Load25), Failing(78), Failing(100) }

ModeCommands ==
    {"AUTO_CAL_ON", "AUTO_CAL_OFF", "AUTO_DETECT", "AUTO_DETECT_ON", "AUTO_DETECT_OFF"}

(* The source changes before the first measurement or around the one that  *)
(* runs the periodic detection.                                            *)
ConnectMeasure ==
    /\ fed.n = 0 \/ fed.n >= DetectionPeriod - 1
    /\ \E ld \in MeasureLoads \ {load} : load' = ld
    /\ UNCHANGED <<cal, snd, now, command, response, pc, holder, took, access, ret, fed, zeroed, wifi>>

(* Commands arrive, one between two measurements, during the first        *)
(* measurements or around the one that runs the periodic detection.        *)
CmdMode ==
    /\ load \in MeasureLoads
    /\ command = NoCommand
    /\ fed.n <= 1 \/ fed.n >= DetectionPeriod - 1
    /\ \E name \in ModeCommands : Handle(Cmd(name), Samples(load, 100))

SamplerMeasure ==
    /\ load \in MeasureLoads
    /\ fed.n < MaxSamplerCalls
    /\ snd.measurement_count < DetectionPeriod
    /\ LET r == measure_rms_current(Clear(cal), snd, Samples(load, 100), now)
       IN  /\ cal' = r.cal
           /\ snd' = r.snd
           /\ ret' = [ret EXCEPT !["sampler"] = r.ret]
    /\ fed' = [fed EXCEPT !.n = @ + 1]
    /\ command' = NoCommand
    /\ response' = <<>>
    /\ UNCHANGED <<now, pc, holder, took, access, load, zeroed, wifi>>

NextMeasure ==
    \/ ConnectMeasure
    \/ CmdMode
    \/ SamplerMeasure

SpecMeasure == Init /\ [][NextMeasure]_vars

----------------------------------------------------------------------------
(* SpecAdapt: the controller tasks run adaptive_threshold_adjustment       *)
(* statement by statement. AUTO_CAL_ON creates further controller tasks,   *)
(* the handler runs recognitions that succeed or fail, and an hour passes  *)
(* while every controller task is in vTaskDelay. A task inside the         *)
(* function is at the change of the sensitivity (ip 1), at the ESP_LOGI    *)
(* that follows an increase (ip 2) or a decrease (ip 3), or at the         *)
(* assignment of last_adjustment (ip 4); i is its local `now`.             *)

MaxAdaptTime == 7200000

Adapting(ip, t) == [routine |-> "adaptive_threshold_adjustment", ip |-> ip, i |-> t]

InAdaptation(t) == t \in Created /\ pc[t].routine = "adaptive_threshold_adjustment"

TickAdapt ==
    /\ \A t \in Created : pc[t] \in {Idle, Deleted}
    /\ now + 3600000 <= MaxAdaptTime
    /\ now' = now + 3600000
    /\ UNCHANGED <<cal, snd, command, response, pc, holder, took, access, ret, fed, load, zeroed, wifi>>

(* AUTO_RECOGNIZE on the detected load: none at boot, 5.00 A or 5.50 A     *)
(* after an AUTO_DETECT.                                                   *)
CmdRecognizeAdapt ==
    /\ \A t \in Created : pc[t] \in {Idle, Deleted}
    /\ CmdRecognizeLoad

CmdDetectAdapt ==
    /\ \A t \in Created : pc[t] \in {Idle, Deleted}
    /\ CmdAutoDetect

(* The body of the loop up to the test of adaptive_threshold_adjustment:   *)
(* the task returns to vTaskDelay when less than an hour has passed.       *)
AdaptTest(t) ==
    /\ Alive(t) /\ pc[t] = InIteration
    /\ cal' = auto_calibration_learning(
                  auto_calibration_zero(Clear(cal), Uniform(AtBias), now), now)
    /\ pc' = [pc EXCEPT ![t] = IF adaptive_threshold_due(cal', now)
                               THEN Adapting(1, now) ELSE Idle]
    /\ command' = NoCommand
    /\ response' = <<>>
    /\ zeroed' = (IF BiasCalibrated(cal') THEN now ELSE zeroed)
    /\ UNCHANGED <<snd, now, holder, took, access, ret, fed, load, wifi>>

AdaptChange(t) ==
    /\ InAdaptation(t) /\ pc[t].ip = 1
    /\ cal' = adaptive_threshold_change(Clear(cal))
    /\ pc' = [pc EXCEPT ![t] =
                 Adapting(IF cal'.auto_cal_sensitivity > cal.auto_cal_sensitivity THEN 2
                          ELSE IF cal'.auto_cal_sensitivity < cal.auto_cal_sensitivity
                          THEN 3 ELSE 4, pc[t].i)]
    /\ command' = NoCommand
    /\ response' = <<>>
    /\ UNCHANGED <<snd, now, holder, took, access, ret, fed, load, zeroed, wifi>>

AdaptLog(t) ==
    /\ InAdaptation(t) /\ pc[t].ip \in {2, 3}
    /\ cal' = Logged(Clear(cal),
                     <<IF pc[t].ip = 2 THEN "Increased auto-cal sensitivity"
                       ELSE "Decreased auto-cal sensitivity">>)
    /\ pc' = [pc EXCEPT ![t] = Adapting(4, pc[t].i)]
    /\ command' = NoCommand
    /\ response' = <<>>
    /\ UNCHANGED <<snd, now, holder, took, access, ret, fed, load, zeroed, wifi>>

AdaptStamp(t) ==
    /\ InAdaptation(t) /\ pc[t].ip = 4
    /\ cal' = adaptive_threshold_stamp(Clear(cal), pc[t].i)
    /\ pc' = [pc EXCEPT ![t] = Idle]
    /\ command' = NoCommand
    /\ response' = <<>>
    /\ UNCHANGED <<snd, now, holder, took, access, ret, fed, load, zeroed, wifi>>

NextAdapt ==
    \/ CmdAutoCalOn
    \/ CmdDetectAdapt
    \/ CmdRecognizeAdapt
    \/ TickAdapt
    \/ \E t \in Controllers : ControllerTest(t)
    \/ \E t \in Controllers : AdaptTest(t)
    \/ \E t \in Controllers : AdaptChange(t)
    \/ \E t \in Controllers : AdaptLog(t)
    \/ \E t \in Controllers : AdaptStamp(t)

SpecAdapt == Init /\ [][NextAdapt]_vars

----------------------------------------------------------------------------
(* SpecWifi: wifi_credentials_task listens on its socket; recvfrom times   *)
(* out after 30 s, or a client sends an empty datagram or credentials, and *)
(* the network lets the station in or not.                                 *)

MaxWifiTime == 90000
RECV_TIMEOUT_MS == 30000

Chars(n) == [i \in 1..n |-> "a"]

(* SSIDs and passwords that are empty, short, of the greatest length and   *)
(* one longer; datagrams with and without a comma, and one that starts     *)
(* with a zero byte.                                                       *)
WifiDatagrams ==
    { Chars(n) \o <<",">> \o Chars(m) :
         n \in {0, 1, MAX_SSID_LEN, MAX_SSID_LEN + 1},
         m \in {0, 1, MAX_PASSWORD_LEN, MAX_PASSWORD_LEN + 1} }
    \cup { Chars(n) : n \in {1, MAX_SSID_LEN + 1} }
    \cup { <<"NUL">> \o Chars(1), Chars(1) \o <<",", ",">> \o Chars(1) }

WifiListening == wifi.state = "recvfrom"

WifiTimeout ==
    /\ WifiListening
    /\ now + RECV_TIMEOUT_MS <= MaxWifiTime
    /\ now' = now + RECV_TIMEOUT_MS
    /\ wifi' = wifi_credentials_nothing(wifi, -1)
    /\ UNCHANGED <<cal, snd, command, response, pc, holder, took, access, ret, fed, load, zeroed>>

WifiEmpty ==
    /\ WifiListening
    /\ wifi' = wifi_credentials_nothing(wifi, 0)
    /\ UNCHANGED <<cal, snd, now, command, response, pc, holder, took, access, ret, fed, load, zeroed>>

WifiCredentials ==
    /\ WifiListening
    /\ \E rx_buffer \in WifiDatagrams, joined \in BOOLEAN :
          wifi' = wifi_credentials_packet(wifi, rx_buffer, joined)
    /\ UNCHANGED <<cal, snd, now, command, response, pc, holder, took, access, ret, fed, load, zeroed>>

NextWifi ==
    \/ WifiTimeout
    \/ WifiEmpty
    \/ WifiCredentials

SpecWifi == Init /\ [][NextWifi]_vars

----------------------------------------------------------------------------
(* SpecZero: loads of constant raw value are connected; the handler sets   *)
(* the scale, calibrates the bias on the connected load, and the sampler   *)
(* measures it.                                                            *)

ZeroRaws == {0, 1000, Load25, ADC_RESOLUTION}

ZeroScales == {100, 10000, 100000}

ConnectSteady ==
    /\ \E raw \in ZeroRaws : load' = Steady(raw) /\ load' # load
    /\ command' = NoCommand
    /\ response' = <<>>
    /\ UNCHANGED <<cal, snd, now, pc, holder, took, access, ret, fed, zeroed, wifi>>

CmdSetScaleOnLoad ==
    \E sc \in ZeroScales : Handle(Cmd1("SET_SCALE", sc), Samples(load, 100))

NextZero ==
    \/ ConnectSteady
    \/ CmdSetScaleOnLoad
    \/ CmdBiasOnLoad
    \/ Measure

SpecZero == Init /\ [][NextZero]_vars

(***************************************************************************)
(* Properties of the command handler (Spec).                               *)
(***************************************************************************)

(* The transducer's voltage range is 0 .. ADC_VOLTAGE_RANGE.               *)
bias_in_range(b) == b >= 0 /\ b <= ADC_VOLTAGE_RANGE
scale_in_range(sc) == sc > 0

(* C1: in every reachable state the scale factor is positive and the bias  *)
(* voltage lies within the transducer's voltage range 0 .. 3.3 V.          *)
C1_ParametersInRange ==
    /\ scale_in_range(cal.amps_per_volt)
    /\ bias_in_range(cal.bias_voltage)

(* The step handles a command that supplies a bias or a scale outside the  *)
(* bounds above.                                                           *)
SuppliesOutOfBounds(c) ==
    \/ starts_with(c.name, "SET_BIAS") /\ ~bias_in_range(c.arg1)
    \/ starts_with(c.name, "SET_SCALE") /\ ~scale_in_range(c.arg1)
    \/ /\ starts_with(c.name, "MANUAL_CAL") /\ c.comma
       /\ ~bias_in_range(c.arg1) \/ ~scale_in_range(c.arg2)

HandlerStep ==
    /\ now' = now
    /\ command' # NoCommand
    /\ <<cal, command, response>>' # <<cal, command, response>>

(* C2: a SET_BIAS, SET_SCALE or MANUAL_CAL command that supplies a bias or *)
(* scale outside the bounds leaves bias_voltage and amps_per_volt as they  *)
(* were and is answered with an ERROR status.                              *)
C2_OutOfBoundsRejected ==
    [][ HandlerStep /\ SuppliesOutOfBounds(command') =>
          /\ cal'.bias_voltage = cal.bias_voltage
          /\ cal'.amps_per_volt = cal.amps_per_volt
          /\ response'[2] = "ERROR" ]_vars

(***************************************************************************)
(* Properties of device recognition (SpecRecognize, SpecAuto).             *)
(***************************************************************************)

InRange(i, x) ==
    /\ x >= known_devices[i].min_current
    /\ x <= known_devices[i].max_current

(* The least catalog index whose range contains x, NULL if there is none.  *)
FirstInOrder(x) ==
    LET matching == {i \in DOMAIN known_devices : InRange(i, x)}
    IN  IF matching = {} THEN NULL
        ELSE CHOOSE i \in matching : \A j \in matching : i <= j

(* C7: a recognition query for x is answered with the first catalog entry  *)
(* in declaration order whose range contains x (11 A gives "Hair Dryer     *)
(* High Setting", which shadows "Space Heater"), with NONE when no range   *)
(* contains x, and it changes no state.                                    *)
C7_FirstMatch ==
    [][ response = <<>> /\ response' # <<>> =>
          LET x == command.arg1
              i == FirstInOrder(x)
          IN  /\ response' = IF i = NULL
                             THEN <<"DEVICE_RECOGNIZED", "NONE">>
                             ELSE <<"DEVICE_RECOGNIZED", known_devices[i].device_name>>
              /\ x = 1100 => response'[2] = "Hair Dryer High Setting"
              /\ x = 1700 => response'[2] = "NONE"
              /\ cal' = cal
              /\ snd' = snd
      ]_vars

(* The query for 11 A has been answered.                                   *)
C7_Witness ==
    /\ command = Cmd1("RECOGNIZE_CURRENT", 1100)
    /\ response = <<"DEVICE_RECOGNIZED", "Hair Dryer High Setting">>

(* The operation in progress has started a scale calibration.              *)
Calibrated(s) ==
    \E k \in DOMAIN s.log : s.log[k][1] = "Calibrating with known load"

(* confidence = (1 - |x - typical| / (max - min)) * boost * sensitivity    *)
(* exceeds 0.9; both sides multiplied by (max - min) * 10 * 100 * 100.     *)
ConfidenceAboveThreshold(i, x, sensitivity) ==
    LET d == known_devices[i]
        width == d.max_current - d.min_current
        distance == IF x >= d.typical_current
                    THEN x - d.typical_current ELSE d.typical_current - x
    IN  (width - distance) * d.confidence_boost * sensitivity > 90 * 10 * width

RecognizeStep ==
    /\ command'.name = "AUTO_RECOGNIZE"
    /\ <<cal, command, response>>' # <<cal, command, response>>

Except(s, fields) == [f \in (DOMAIN s) \ (fields \cup {"log"}) |-> s[f]]

(* C8: auto_recognize_and_calibrate(x) on the detected load x: with a      *)
(* matching profile and confidence above 0.9 a scale calibration is        *)
(* started and the success counter grows by one; with a matching profile   *)
(* and confidence at most 0.9 no calibration is started, the failure       *)
(* counter grows by one and nothing else changes; with no matching profile *)
(* nothing changes. At sensitivity 0.7, 5.0 A calibrates and 5.5 A does    *)
(* not.                                                                    *)
C8_ConfidenceGate ==
    [][ RecognizeStep =>
          LET x == cal.detected_load_amps
              i == FirstInOrder(x)
          IN  /\ i = NULL =>
                    /\ Except(cal', {}) = Except(cal, {})
                    /\ ~Calibrated(cal')
              /\ i # NULL /\ ConfidenceAboveThreshold(i, x, cal.auto_cal_sensitivity) =>
                    /\ Calibrated(cal')
                    /\ cal'.successful_recognitions = cal.successful_recognitions + 1
                    /\ cal'.failed_recognitions = cal.failed_recognitions
              /\ i # NULL /\ ~ConfidenceAboveThreshold(i, x, cal.auto_cal_sensitivity) =>
                    /\ ~Calibrated(cal')
                    /\ cal'.failed_recognitions = cal.failed_recognitions + 1
                    /\ Except(cal', {"failed_recognitions"})
                          = Except(cal, {"failed_recognitions"})
              /\ cal.auto_cal_sensitivity = 70 /\ x = 500 => Calibrated(cal')
              /\ cal.auto_cal_sensitivity = 70 /\ x = 550 => ~Calibrated(cal')
      ]_vars

(* After 5.0 A was recognised and calibrated on, 5.5 A has been detected   *)
(* and recognition at sensitivity 0.7 has declined to calibrate.           *)
C8_Witness ==
    /\ command.name = "AUTO_RECOGNIZE"
    /\ cal.detected_load_amps = 550
    /\ cal.auto_cal_sensitivity = 70
    /\ cal.successful_recognitions = 1
    /\ cal.failed_recognitions = 1
    /\ ~Calibrated(cal)

(***************************************************************************)
(* Properties of the parameter store (SpecStore).                          *)
(***************************************************************************)

(* The step is a call of the store's API by the handler task.              *)
StoreCallStep ==
    /\ holder' = holder
    /\ <<cal, command, ret, took>>' # <<cal, command, ret, took>>

OnlyChanged(field) ==
    \A f \in (DOMAIN cal) \ {field, "log"} : cal'[f] = cal[f]

(* C3: with the mutex free, a getter called right after the matching       *)
(* setter returns the value that was set, for the bias and for the scale,  *)
(* and a setter changes no field of the store but its own.                 *)
C3_RoundTrip ==
    [][ /\ ( /\ command.name = "set_bias_voltage" /\ took["handler"]
             /\ command'.name = "get_bias_voltage" /\ took'["handler"]
             => ret'["handler"] = command.arg1 )
        /\ ( /\ command.name = "set_amps_per_volt" /\ took["handler"]
             /\ command'.name = "get_amps_per_volt" /\ took'["handler"]
             => ret'["handler"] = command.arg1 )
        /\ ( StoreCallStep /\ command'.name = "set_bias_voltage" /\ took'["handler"]
             => cal'.bias_voltage = command'.arg1 /\ OnlyChanged("bias_voltage") )
        /\ ( StoreCallStep /\ command'.name = "set_amps_per_volt" /\ took'["handler"]
             => cal'.amps_per_volt = command'.arg1 /\ OnlyChanged("amps_per_volt") )
      ]_vars

(* A getter has returned, uncontended, a value other than the default just *)
(* after the setter stored it.                                             *)
C3_Witness ==
    /\ command.name = "get_bias_voltage"
    /\ took["handler"]
    /\ ret["handler"] = 1700
    /\ cal.bias_voltage = 1700
    /\ cal.amps_per_volt = 10000

(* C6: when the mutex is not acquired within the timeout a setter leaves   *)
(* every stored value as it was and logs nothing, and a getter returns 0   *)
(* whatever the stored value is.                                           *)
C6_TimeoutPolicy ==
    [][ StoreCallStep /\ ~took'["handler"] =>
          /\ cal' = Clear(cal)
          /\ command'.name \in {"set_bias_voltage", "set_amps_per_volt"}
                => ret' = ret
          /\ command'.name \in {"get_bias_voltage", "get_amps_per_volt"}
                => ret'["handler"] = 0
      ]_vars

(* A getter timed out while the stored bias was 1.7 V and returned 0.      *)
C6_Witness ==
    /\ command.name = "get_bias_voltage"
    /\ ~took["handler"]
    /\ ret["handler"] = 0
    /\ cal.bias_voltage = 1700

(***************************************************************************)
(* Properties of the tasks' use of calibration_mutex (SpecTasks).          *)
(***************************************************************************)

(* C4: every read and every write of bias_voltage and of amps_per_volt is  *)
(* made by a task that holds calibration_mutex.                            *)
C4_AccessUnderMutex ==
    \A t \in Tasks :
        access[t].field \in {"bias_voltage", "amps_per_volt"} => access[t].locked

OpAt(t, k) ==
    LET p == Program(pc[t].routine)
    IN  IF k \in DOMAIN p THEN p[k].op ELSE "none"

(* The holder is about to make the one access it took the mutex for, or   *)
(* is about to give the mutex back right after that access.                *)
HoldsForOneAccess(t) ==
    /\ Running(t)
    /\ \/ /\ OpAt(t, pc[t].ip - 1) = "take"
          /\ OpAt(t, pc[t].ip) \in {"read", "write"}
          /\ OpAt(t, pc[t].ip + 1) = "give"
       \/ /\ OpAt(t, pc[t].ip - 2) = "take"
          /\ OpAt(t, pc[t].ip - 1) \in {"read", "write"}
          /\ OpAt(t, pc[t].ip) = "give"

(* C5: at most one task holds the mutex; a holder is between a take and    *)
(* the give that follows one field access, never at a sampling step or a   *)
(* delay; and no task is ever stuck: each always has a step it can take.   *)
C5_MutexDiscipline ==
    /\ Cardinality(holder) <= 1
    /\ \A t \in holder : HoldsForOneAccess(t)
    /\ \A t \in Tasks : ENABLED TaskStep(t)

(* The sampler holds the mutex while the handler and the controller are   *)
(* both waiting to take it.                                                *)
C5_Witness ==
    /\ holder = {"sampler"}
    /\ Running("handler") /\ Instr("handler").op = "take"
    /\ Running("controller") /\ Instr("controller").op = "take"

(***************************************************************************)
(* Properties of the stability detector and of RESET_CAL (SpecDetector).   *)
(***************************************************************************)

FeedStep == fed'.n = fed.n + 1

(* The calls of auto_recognize_and_calibrate made by the operation in      *)
(* progress.                                                               *)
RecognitionCalls(s) ==
    {k \in DOMAIN s.log : s.log[k][1] = "auto_recognize_and_calibrate"}

WindowEvaluated(s) ==
    \E k \in DOMAIN s.log : s.log[k][1] = "Stable load detected"

(* C9: from the initial state, with every reading so far the same c in     *)
(* 0.5 .. 15 A: the first 49 insertions evaluate no window; the 50th finds *)
(* variance 0, takes the detector from idle to the stable period with      *)
(* stable_load_value = c and calls recognition exactly once, with c. While *)
(* the detector stays in the stable period no insertion calls recognition. *)
C9_ConstantReading ==
    /\ [][ /\ FeedStep /\ fed'.constant
           /\ fed'.first >= AUTO_CAL_MIN_CURRENT /\ fed'.first <= AUTO_CAL_MAX_CURRENT
           => /\ fed'.n < HISTORY_SIZE =>
                    /\ ~cal'.history_full
                    /\ ~cal'.in_stable_period
                    /\ ~WindowEvaluated(cal')
                    /\ RecognitionCalls(cal') = {}
              /\ fed'.n = HISTORY_SIZE =>
                    /\ cal'.history_full
                    /\ history_variance(cal'.current_history) = 0
                    /\ ~cal.in_stable_period /\ cal'.in_stable_period
                    /\ cal'.stable_load_value = fed'.first
                    /\ Cardinality(RecognitionCalls(cal')) = 1
                    /\ \A k \in RecognitionCalls(cal') : cal'.log[k][2] = fed'.first
         ]_vars
    /\ [][ FeedStep /\ cal.in_stable_period /\ cal'.in_stable_period
           => RecognitionCalls(cal') = {} ]_vars

(* The 50th reading of 5.0 A has just been inserted.                       *)
C9_Witness ==
    /\ fed = [n |-> HISTORY_SIZE, first |-> 500, constant |-> TRUE]
    /\ cal.in_stable_period
    /\ cal.stable_load_value = 500
    /\ Cardinality(RecognitionCalls(cal)) = 1

ResetStep ==
    /\ command'.name = "RESET_CAL"
    /\ fed' = fed /\ now' = now
    /\ <<cal, command, response>>' # <<cal, command, response>>

(* C10: RESET_CAL leaves bias_voltage = 1.65 V and amps_per_volt = 200,    *)
(* zeroes auto_cal_count, successful_recognitions, failed_recognitions and *)
(* last_auto_cal_time and empties the learning history; a second RESET_CAL *)
(* right after it changes nothing and gets the same answer.                *)
C10_ResetCal ==
    [][ ResetStep =>
          /\ cal'.bias_voltage = 1650
          /\ cal'.amps_per_volt = 20000
          /\ cal'.auto_cal_count = 0
          /\ cal'.successful_recognitions = 0
          /\ cal'.failed_recognitions = 0
          /\ cal'.last_auto_cal_time = 0
          /\ cal'.learning_point_count = 0
          /\ cal'.learning_point_index = 0
          /\ \A i \in DOMAIN cal'.learning_points : cal'.learning_points[i] = ZeroPoint
          /\ LET again == process_udp_command(Clear(cal'), snd', Cmd("RESET_CAL"),
                                              Uniform(AtBias), now')
             IN  /\ again.cal = cal'
                 /\ again.snd = snd'
                 /\ again.response = response'
      ]_vars

(* RESET_CAL has been handled, and answered with the defaults, after the   *)
(* detector had calibrated on a stable load (last_scale_calibration is set *)
(* only there, together with auto_cal_count and a learning point); the     *)
(* count and the learning points are back at zero.                         *)
C10_Witness ==
    /\ command.name = "RESET_CAL"
    /\ response = <<"RESET_CAL", "SUCCESS", 1650, 20000>>
    /\ cal.last_scale_calibration > 0
    /\ cal.auto_cal_count = 0
    /\ cal.learning_point_count = 0

(***************************************************************************)
(* Properties of calibration and measurement on a load (SpecLoad).         *)
(***************************************************************************)

ScaleCommands == {"SCALE_CAL", "CALIBRATE", "CAL_KNOWN"}

BiasCommands == {"ZERO_CAL", "RECALIBRATE_BIAS"}

(* The step is a measurement by the sampler that obtained valid samples.   *)
MeasureStep == snd'.total_measurements = snd.total_measurements + 1

(* The command handled last was a scale calibration with a known current   *)
(* in (0, MAX_CURRENT_AMPS] that found more than 10 valid samples on the   *)
(* present load: it succeeded.                                             *)
ScaleCalibrationSucceeded ==
    /\ command.name \in ScaleCommands
    /\ command.arg1 > 0 /\ command.arg1 <= MAX_CURRENT_AMPS
    /\ known_load_loop(Samples(load, 50), cal.bias_voltage, 50)[2] > 10

(* The sampling noise floor granted to a measurement: a tenth of the       *)
(* expected current.                                                       *)
WithinNoise(current_amps, expected) == fabsf(current_amps - expected) * 10 <= expected

(* C11: after a scale calibration with known current K has succeeded on a  *)
(* load, a measurement of the same load returns K (within the noise        *)
(* floor).                                                                 *)
C11_MeasureReproducesKnown ==
    [][ MeasureStep /\ ScaleCalibrationSucceeded
            => WithinNoise(ret'["sampler"], command.arg1) ]_vars

(* The command handled last was a zero-point calibration, and the present  *)
(* load yields one raw value on every read: the calibration succeeded on   *)
(* that value.                                                             *)
ZeroCalibratedOnConstant ==
    /\ command.name \in BiasCommands
    /\ load.first = load.rest
    /\ load.first # ADC_FAIL

LoggedInStep(line) == \E k \in DOMAIN cal'.log : cal'.log[k][1] = line

InsufficientSamples ==
    /\ snd' = snd
    /\ \/ command'.name \in BiasCommands /\ LoggedInStep("Bias calibration failed")
       \/ command'.name \in ScaleCommands /\ LoggedInStep("Calibration failed")

(* C13: when a calibration command collects fewer valid samples than its   *)
(* minimum, its response carries a failure status and not SUCCESS.         *)
C13_FailureReported ==
    [][ InsufficientSamples => response'[2] # "SUCCESS" ]_vars

(* The step handled a scale calibration command on the present load.       *)
ScaleCommandStep ==
    /\ command'.name \in ScaleCommands
    /\ snd' = snd
    /\ load' = load

(* What the sampling loop of calibrate_with_known_load reads in the step:  *)
(* <<sum of the valid AC magnitudes, number of valid samples>>.            *)
StepSamples == known_load_loop(Samples(load, 50), cal.bias_voltage, 50)

KnownInRange(known_amps) == known_amps > 0 /\ known_amps <= MAX_CURRENT_AMPS

(* The step committed known / (mean valid magnitude) and recorded one      *)
(* manual learning point for it.                                           *)
Committed(known_amps, r) ==
    /\ cal'.amps_per_volt = (known_amps * 1000) \div (r[1] \div r[2])
    /\ cal'.learning_point_count = cal.learning_point_count + 1
    /\ cal'.learning_points =
           [cal.learning_points EXCEPT ![cal.learning_point_count] =
               [expected_current |-> known_amps, measured_voltage |-> r[1] \div r[2],
                timestamp |-> now, confidence |-> 10, auto_generated |-> FALSE]]

(* The step left the scale, the learning history and last_auto_cal_time.   *)
Untouched ==
    /\ cal'.amps_per_volt = cal.amps_per_volt
    /\ cal'.learning_points = cal.learning_points
    /\ cal'.learning_point_count = cal.learning_point_count
    /\ cal'.learning_point_index = cal.learning_point_index
    /\ cal'.last_auto_cal_time = cal.last_auto_cal_time

CommitsFrom(minimum) ==
    ScaleCommandStep =>
        IF KnownInRange(command'.arg1) /\ StepSamples[2] >= minimum
        THEN Committed(command'.arg1, StepSamples)
        ELSE Untouched

----------------------------------------------------------------------------
(* Properties of the sensitivity and the learning rate (SpecControl)       *)

UnitInterval == 0..100

(* The step handled the command `name`, which sets cal.field.              *)
SetsOrRejects(name, label, field) ==
    command'.name = name /\ snd' = snd /\ now' = now =>
        IF command'.arg1 \in UnitInterval
        THEN /\ cal'[field] = command'.arg1
             /\ response' = <<label, "SUCCESS", command'.arg1>>
        ELSE /\ cal'[field] = cal[field]
             /\ response' = <<label, "ERROR", "INVALID_RANGE">>

(* C15: auto_cal_sensitivity and learning_rate lie in [0, 1] in every      *)
(* reachable state; AUTO_CAL_SENSITIVITY and AUTO_CAL_LEARNING_RATE with a *)
(* value outside [0, 1] answer ERROR,INVALID_RANGE and leave the value, a  *)
(* value inside is stored exactly, and the adaptive adjustment keeps the   *)
(* sensitivity in [0, 1].                                                  *)
C15_UnitInterval ==
    /\ [](cal.auto_cal_sensitivity \in UnitInterval /\ cal.learning_rate \in UnitInterval)
    /\ [][ /\ SetsOrRejects("AUTO_CAL_SENSITIVITY", "AUTO_CAL_SENSITIVITY",
                            "auto_cal_sensitivity")
           /\ SetsOrRejects("AUTO_CAL_LEARNING_RATE", "LEARNING_RATE", "learning_rate")
         ]_vars

(* The sensitivity was set to 1.0 by command and then lowered by the       *)
(* adaptation; an out-of-range learning rate was refused.                  *)
C15_Witness ==
    /\ cal.auto_cal_sensitivity = 95
    /\ cal.last_adjustment = now /\ now > 0
    /\ cal.learning_rate = 100
    /\ command = Cmd1("AUTO_CAL_LEARNING_RATE", 101)
    /\ response = <<"LEARNING_RATE", "ERROR", "INVALID_RANGE">>

(* The step is an adaptation that changed the sensitivity.                 *)
Adapted ==
    /\ cal'.last_adjustment # cal.last_adjustment
    /\ cal'.auto_cal_sensitivity # cal.auto_cal_sensitivity

(* C16: whenever the adaptation changes the sensitivity, the resulting     *)
(* value lies within [0.3, 0.9].                                           *)
C16_AdaptedWithinClamp ==
    [][ Adapted => cal'.auto_cal_sensitivity \in 30..90 ]_vars

----------------------------------------------------------------------------
(* Properties of the stable period (SpecStable)                            *)

(* The step inserted a reading and evaluated a stable window.              *)
StableWindowStep ==
    /\ FeedStep
    /\ cal'.history_full
    /\ cal'.consecutive_zero_readings = 0
    /\ is_stable(cal'.current_history)

(* The operation in progress started a scale calibration.                  *)
ScaleCalibrations(s) ==
    {k \in DOMAIN s.log : s.log[k][1] = "Calibrating with known load"}

(* C17: while the evaluated windows remain stable the detector leaves the  *)
(* stable period only when the load has been stable for longer than        *)
(* DEVICE_STABLE_TIME and the last scale calibration is more than the      *)
(* recalibration interval ago, and in the same step it recalibrates the    *)
(* scale with stable_load_value.                                           *)
C17_LeavesStableOnRecalibration ==
    [][ StableWindowStep /\ cal.in_stable_period /\ ~cal'.in_stable_period
        => /\ now - cal.stable_load_start > DEVICE_STABLE_TIME_MS
           /\ now - cal.last_scale_calibration > AUTO_CAL_ZERO_INTERVAL_MS
           /\ \E k \in ScaleCalibrations(cal') : cal'.log[k][2] = cal.stable_load_value
      ]_vars

(* C18: on a load whose windows have all been stable, once the detector    *)
(* has recalibrated the scale and left the stable period, no step starts   *)
(* an automatic scale calibration before the recalibration interval has    *)
(* elapsed.                                                                *)
C18_NoRepeatedRecalibration ==
    [][ /\ StableWindowStep /\ fed'.constant
        /\ cal.last_scale_calibration > 0
        /\ now - cal.last_scale_calibration <= AUTO_CAL_ZERO_INTERVAL_MS
        => ScaleCalibrations(cal') = {}
      ]_vars

----------------------------------------------------------------------------
(* Properties of the zero-point recalibration (SpecRecal)                  *)

(* The step is an iteration of the controller.                             *)
IterateStep ==
    /\ command' = NoCommand
    /\ now' = now
    /\ fed' = fed

ZeroRecalibrated(s) ==
    \E k \in DOMAIN s.log :
        s.log[k][1] = "Performing automatic zero-point recalibration"

(* C19: an iteration of the controller recalibrates the zero point if and  *)
(* only if consecutive_zero_readings > 150 and more than 30 minutes have   *)
(* passed since the latest zero-point calibration of any origin (startup,  *)
(* ZERO_CAL, controller).                                                  *)
C19_ZeroRecalibrationEligibility ==
    [][ IterateStep =>
           ( ZeroRecalibrated(cal') <=>
                /\ cal.consecutive_zero_readings > AUTO_CAL_CONSECUTIVE_ZERO_COUNT
                /\ now - zeroed > AUTO_CAL_ZERO_INTERVAL_MS )
      ]_vars

----------------------------------------------------------------------------
(* Properties of the learning history (SpecLearn)                          *)

(* In SpecLearn the k-th call (k = 0, 1, ...) is made at time k, so `now`  *)
(* is the number of calls made and a point's timestamp is its call.        *)
Stored == IF now < MAX_LEARNING_POINTS THEN now ELSE MAX_LEARNING_POINTS

(* The latest of the first n calls that wrote slot i.                      *)
LatestCallAt(i, n) == n - 1 - ((n - 1 - i) % MAX_LEARNING_POINTS)

HistoryHoldsLatest ==
    /\ cal.learning_point_count = Stored
    /\ \A i \in 0..(MAX_LEARNING_POINTS - 1) :
          IF i < Stored
          THEN /\ cal.learning_points[i].timestamp = LatestCallAt(i, now)
               /\ cal.learning_points[i].confidence =
                      (IF cal.learning_points[i].auto_generated THEN 8 ELSE 10)
          ELSE cal.learning_points[i] = ZeroPoint
    /\ {cal.learning_points[i].timestamp : i \in 0..(Stored - 1)} = (now - Stored)..(now - 1)

(* The slot whose point is the oldest.                                     *)
OldestSlot ==
    CHOOSE i \in 0..(MAX_LEARNING_POINTS - 1) :
        \A j \in 0..(MAX_LEARNING_POINTS - 1) :
            cal.learning_points[i].timestamp <= cal.learning_points[j].timestamp

LearnStep == command'.name = "learn_from_calibration" /\ now' = now + 1

(* The step wrote the point of its call into slot i and no other slot.     *)
WroteSlot(i) ==
    /\ cal'.learning_points[i] =
           [expected_current |-> command'.arg1,
            measured_voltage |-> (command'.arg1 * 1000) \div cal.amps_per_volt,
            timestamp        |-> now,
            confidence       |-> IF command'.arg2 = 1 THEN 10 ELSE 8,
            auto_generated   |-> command'.arg2 # 1]
    /\ \A j \in 0..(MAX_LEARNING_POINTS - 1) \ {i} :
           cal'.learning_points[j] = cal.learning_points[j]

(* C20: after n calls of learn_from_calibration by one task since the      *)
(* reset, learning_point_count = min(n, 50) and the history holds exactly  *)
(* the min(n, 50) most recent points; a call beyond capacity overwrites    *)
(* the oldest point; a point has confidence 1.0 if recorded as manual and  *)
(* 0.8 otherwise.                                                          *)
C20_BoundedHistory ==
    /\ []HistoryHoldsLatest
    /\ [][ LearnStep =>
              IF cal.learning_point_count < MAX_LEARNING_POINTS
              THEN WroteSlot(cal.learning_point_count)
              ELSE WroteSlot(OldestSlot) ]_vars

(* 52 calls have been made; the latest, an automatic one, took the place   *)
(* of the second.                                                          *)
C20_Witness ==
    /\ now = 52
    /\ cal.learning_point_count = MAX_LEARNING_POINTS
    /\ cal.learning_point_index = 2
    /\ cal.learning_points[1].timestamp = 51
    /\ cal.learning_points[1].auto_generated
    /\ cal.learning_points[1].confidence = 8
    /\ cal.learning_points[2].timestamp = 2

----------------------------------------------------------------------------
(* Properties of the learned calibration (SpecApply)                       *)

ApplyStep == command'.name = "APPLY_LEARNING" /\ now' = now

PointsUsed ==
    IF cal.learning_point_count < MAX_LEARNING_POINTS
    THEN cal.learning_point_count ELSE MAX_LEARNING_POINTS

(* <<numerator, denominator, total_weight>> of the history at the step.    *)
StepSums == learned_sums(cal, now, PointsUsed)

(* The step computes a learned scale: enough points, and sums above the    *)
(* epsilons.                                                               *)
LearnedComputed ==
    /\ cal.learning_point_count >= MIN_LEARNING_POINTS
    /\ StepSums[2] > 1000
    /\ StepSums[3] > 100

StepLearned == scale_quotient(StepSums[1], StepSums[2])

WithinHalf(learned, current) == 2 * learned > current /\ 2 * learned < 3 * current

Between(x, a, b) == (a <= x /\ x <= b) \/ (b <= x /\ x <= a)

Blended(current, learned) ==
    /\ cal'.amps_per_volt = (7 * current + 3 * learned) \div 10
    /\ 100 * fabsf(cal'.amps_per_volt - current) < 15 * current
    /\ Between(cal'.amps_per_volt, current, learned)

(* C21: apply_learned_calibration changes the scale factor only when the   *)
(* history holds at least 3 points and the learned scale lies strictly     *)
(* within 50% of the current one; the new scale is then                    *)
(* 0.7 * current + 0.3 * learned, less than 15% away from the current one  *)
(* and not past the learned one; otherwise the scale is unchanged.         *)
C21_DampedUpdate ==
    [][ ApplyStep =>
          IF LearnedComputed /\ WithinHalf(StepLearned, cal.amps_per_volt)
          THEN Blended(cal.amps_per_volt, StepLearned)
          ELSE cal'.amps_per_volt = cal.amps_per_volt
      ]_vars

(* APPLY_LEARNING has blended a learned 200 A/V into a scale of 300 A/V.   *)
C21_Witness ==
    /\ command = Cmd("APPLY_LEARNING")
    /\ cal.learning_point_count = MIN_LEARNING_POINTS
    /\ cal.amps_per_volt = 27000
    /\ \A i \in 0..2 : cal.learning_points[i].expected_current * 1000
                          = 20000 * cal.learning_points[i].measured_voltage

(* 0.95^age_days in 1/1000, for whole days.                                *)
RECURSIVE Decay(_)
Decay(age_days) == IF age_days = 0 THEN 1000 ELSE (Decay(age_days - 1) * 95) \div 100

(* weight = confidence * 0.95^age_days * learning_rate, in 1/1000.         *)
Weight(p) ==
    (p.confidence * Decay((now - p.timestamp) \div DAY_MS) * cal.learning_rate) \div 1000

(* The stored points whose measured voltage is not negligible.             *)
Significant == {i \in 0..(PointsUsed - 1) : cal.learning_points[i].measured_voltage > 1}

RECURSIVE SumOver(_, _)
SumOver(f, S) ==
    IF S = {} THEN 0
    ELSE LET i == CHOOSE j \in S : TRUE IN f[i] + SumOver(f, S \ {i})

WeightedCurrent ==
    SumOver([i \in Significant |-> cal.learning_points[i].expected_current
                                      * Weight(cal.learning_points[i])], Significant)

WeightedVoltage ==
    SumOver([i \in Significant |-> cal.learning_points[i].measured_voltage
                                      * Weight(cal.learning_points[i])], Significant)

(* WeightedCurrent / WeightedVoltage in 0.01 A/V.                          *)
WeightedRatio ==
    1000 * (WeightedCurrent \div WeightedVoltage)
        + ((WeightedCurrent % WeightedVoltage) * 1000) \div WeightedVoltage

(* The step computed the learned scale `learned`: it rejected it by name   *)
(* or blended it into the scale.                                           *)
Produced(learned) ==
    \E k \in DOMAIN cal'.log :
        \/ cal'.log[k] = <<"Learned scale rejected", learned>>
        \/ cal'.log[k] = <<"Applied learned calibration",
                           (7 * cal.amps_per_volt + 3 * learned) \div 10>>

(* The significant points are the manual zero-age points (5 A, 0.025 V)    *)
(* and (10 A, 0.05 V), and the learning rate is 1.                         *)
TwoPointExample ==
    /\ cal.learning_rate = 100
    /\ Cardinality(Significant) = 2
    /\ \A i \in Significant :
          /\ ~cal.learning_points[i].auto_generated
          /\ cal.learning_points[i].timestamp = now
    /\ { <<cal.learning_points[i].expected_current, cal.learning_points[i].measured_voltage>>
            : i \in Significant } = { <<500, 25>>, <<1000, 50>> }

(* C22: the learned scale of apply_learned_calibration is                  *)
(* sum(expected * weight) / sum(measured * weight) over the points of      *)
(* non-negligible voltage, with weight = confidence * 0.95^age_days *      *)
(* learning_rate; for the two manual zero-age points (5 A, 0.025 V) and    *)
(* (10 A, 0.05 V) at learning rate 1 it produces 200 A/V.                  *)
C22_WeightedRatio ==
    [][ ApplyStep =>
          /\ LearnedComputed => Produced(WeightedRatio)
          /\ TwoPointExample => Produced(20000)
      ]_vars

(* C22, with what the code requires: the example yields 200 A/V once the   *)
(* history holds the 3 points apply_learned_calibration asks for.          *)
C22_WeightedRatioOfThree ==
    [][ ApplyStep =>
          /\ LearnedComputed => Produced(WeightedRatio)
          /\ TwoPointExample /\ cal.learning_point_count >= MIN_LEARNING_POINTS
                => Produced(20000)
      ]_vars

(* APPLY_LEARNING at 300 A/V with the two points of the example and a      *)
(* third of negligible voltage has blended 200 A/V in.                     *)
C22_Witness ==
    /\ command = Cmd("APPLY_LEARNING")
    /\ cal.learning_rate = 100
    /\ cal.learning_point_count = 3
    /\ { <<cal.learning_points[i].expected_current, cal.learning_points[i].measured_voltage>>
            : i \in 0..2 } = { <<500, 25>>, <<1000, 50>>, <<500, 0>> }
    /\ cal.amps_per_volt = 27000
    /\ \E k \in DOMAIN cal.log : cal.log[k] = <<"Applied learned calibration", 27000>>

----------------------------------------------------------------------------
(* Properties of the tasks' shared statics (SpecShared)                    *)

InDetector(t) == pc[t].routine = "process_current_for_auto_calibration"

UpdatingIndex(t) ==
    /\ InDetector(t)
    /\ Instr(t).field = "history_index"

(* C23: only the sampler executes the load detector                        *)
(* (process_current_for_auto_calibration and what it calls), so no two     *)
(* tasks are ever updating history_index at the same time.                 *)
C23_OnlySamplerDetects ==
    /\ \A t \in Tasks \ {"sampler"} : ~InDetector(t)
    /\ \A t, u \in Tasks : UpdatingIndex(t) /\ UpdatingIndex(u) => t = u

(* The consequence alone: no two tasks between the load and the store of   *)
(* history_index.                                                          *)
ExclusiveIndexUpdate ==
    \A t, u \in Tasks : UpdatingIndex(t) /\ UpdatingIndex(u) => t = u

Counters == {"auto_cal_count", "successful_recognitions", "failed_recognitions"}

ResetWrites(t, c) ==
    /\ pc[t].routine = "reset_auto_cal_statistics"
    /\ Instr(t) = Write(c)
    /\ pc'[t] # pc[t]

(* C24: auto_cal_count, successful_recognitions and failed_recognitions    *)
(* never decrease, except in a step of reset_auto_cal_statistics that      *)
(* writes the counter.                                                     *)
C24_CountersMonotonic ==
    [][\A c \in Counters :
          cal'[c] < cal[c] => \E t \in Tasks : ResetWrites(t, c)]_vars

----------------------------------------------------------------------------
(* Properties of the controller tasks (SpecLifecycle)                      *)

AllTerminated == \A t \in Created : pc[t] = Deleted

Disabled == ~cal.auto_calibration_enabled

(* C25: once auto-calibration is disabled, and unless it is enabled again, *)
(* every controller task is eventually deleted; no task starts an          *)
(* iteration while the flag is off (it finishes at most the one in         *)
(* progress), and a deleted task does nothing more.                        *)
C25_ControllersTerminate ==
    /\ Disabled ~> (~Disabled \/ AllTerminated)
    /\ [][\A t \in Created :
             /\ pc[t] = Idle /\ pc'[t] = InIteration => ~Disabled
             /\ pc[t] = Idle /\ Disabled /\ pc'[t] # Idle => pc'[t] = Deleted
             /\ pc[t] = Deleted => pc'[t] = Deleted /\ response' # <<"auto_calibration_task", t>>]_vars

C25_Witness ==
    /\ Disabled
    /\ AllTerminated
    /\ Cardinality(Created) > 1

(* C26: at most one controller task is alive at any time.                  *)
C26_OneController == Cardinality({t \in Controllers : Alive(t)}) <= 1

----------------------------------------------------------------------------
(* Properties of the learning history under interleaving (SpecLearnRace)   *)

(* C27: learning_point_count never exceeds MAX_LEARNING_POINTS and every   *)
(* write of a learning point lands inside the array.                       *)
C27_HistoryWithinBounds ==
    /\ cal.learning_point_count <= MAX_LEARNING_POINTS
    /\ DOMAIN cal.learning_points = 0..(MAX_LEARNING_POINTS - 1)

----------------------------------------------------------------------------
(* Properties of the learned write under interleaving (SpecApplyRace)      *)

BlendWrites(t) ==
    /\ Running(t) /\ Instr(t).op = "blend"
    /\ pc'[t] # pc[t]
    /\ cal'.amps_per_volt # cal.amps_per_volt

(* C28: a learned write of the scale is computed from the scale as it is   *)
(* when the write is made: no operator command has changed the scale       *)
(* between the read and the write of apply_learned_calibration.            *)
C28_AtomicLearnedWrite ==
    [][\A t \in Appliers : BlendWrites(t) => ret[t] = cal.amps_per_volt]_vars

----------------------------------------------------------------------------
(* Properties of the calibration that recognition triggers (SpecAuto)      *)

(* The operation in progress has called calibrate_with_known_load(x).      *)
AnchoredOn(s, x) ==
    \E k \in DOMAIN s.log : s.log[k] = <<"Calibrating with known load", x>>

Accepted == cal'.successful_recognitions = cal.successful_recognitions + 1

----------------------------------------------------------------------------
(* Properties of the points that automatic calibrations record             *)
(* (SpecStable: every calibration is started by the detector)              *)

PointsAdded(s) == {k \in DOMAIN s.log : s.log[k][1] = "Learning point added"}

Completed(s) == {k \in DOMAIN s.log : s.log[k][1] = "Calibration complete"}

(* C30: an automatic calibration (a confident recognition or a             *)
(* recalibration on a stable load) records one learning point when it      *)
(* succeeds and none when it fails, the point is auto-generated with       *)
(* confidence 0.8, and no point of confidence 1.0 enters the history       *)
(* without an operator's manual calibration.                               *)
C30_AutomaticPoints ==
    [][ FeedStep /\ ScaleCalibrations(cal') # {} =>
          /\ Cardinality(PointsAdded(cal')) = Cardinality(Completed(cal'))
          /\ \A k \in PointsAdded(cal') : cal'.log[k][4] = FALSE
          /\ \A i \in 0..(cal'.learning_point_count - 1) :
                /\ cal'.learning_points[i].confidence = 8
                /\ cal'.learning_points[i].auto_generated
      ]_vars

----------------------------------------------------------------------------
(* Properties of the automatic calibrations that abort (SpecAbort)         *)

(* The operation in progress committed a new bias, a new scale.            *)
BiasCommitted(s) ==
    \E k \in DOMAIN s.log : s.log[k][1] = "Bias voltage calibrated to"

ScaleCommitted(s) ==
    \E k \in DOMAIN s.log : s.log[k][1] = "Calibration complete"

(* C31: auto_cal_count, successful_recognitions, last_zero_calibration and *)
(* last_scale_calibration advance only in a step whose calibration         *)
(* committed a new bias or a new scale.                                    *)
C31_AdvanceOnCommit ==
    [][ /\ cal'.auto_cal_count # cal.auto_cal_count
            => BiasCommitted(cal') \/ ScaleCommitted(cal')
        /\ cal'.successful_recognitions # cal.successful_recognitions
            => ScaleCommitted(cal')
        /\ cal'.last_zero_calibration # cal.last_zero_calibration
            => BiasCommitted(cal')
        /\ cal'.last_scale_calibration # cal.last_scale_calibration
            => ScaleCommitted(cal')
      ]_vars

----------------------------------------------------------------------------
(* Properties of the detector on near-zero readings (SpecGap)              *)

(* The reading that the step handed to the detector.                       *)
ReadingFed == cal'.current_history[(cal'.history_index + HISTORY_SIZE - 1) % HISTORY_SIZE]

(* C32: the detector stays in a stable period, with the stable_since and   *)
(* stable_value it recorded, only through readings whose window it         *)
(* evaluated and found stable; so whenever it triggers a recalibration     *)
(* every reading since stable_since was so evaluated, and a run of         *)
(* near-zero readings cannot leave it in the period it was in.             *)
C32_StableThroughEvaluatedWindows ==
    [][ /\ FeedStep
        /\ cal.in_stable_period
        /\ cal'.in_stable_period
        /\ cal'.stable_load_start = cal.stable_load_start
        => StableWindowStep
      ]_vars

(* C33: a reading below the near-zero threshold adds one to                *)
(* consecutive_zero_readings and leaves in_stable_period,                  *)
(* stable_load_value and stable_load_start as they were; any other reading *)
(* sets the counter to 0.                                                  *)
C33_NearZeroCounting ==
    [][ FeedStep =>
          IF ReadingFed < AUTO_CAL_ZERO_THRESHOLD
          THEN /\ cal'.consecutive_zero_readings = cal.consecutive_zero_readings + 1
               /\ cal'.in_stable_period = cal.in_stable_period
               /\ cal'.stable_load_value = cal.stable_load_value
               /\ cal'.stable_load_start = cal.stable_load_start
          ELSE cal'.consecutive_zero_readings = 0
      ]_vars

(* Two readings below the threshold arrived during the stable period of   *)
(* the 2 A load and left it as it was.                                     *)
C33_Witness ==
    /\ fed.n = HISTORY_SIZE + 2
    /\ cal.current_history[0] = 4
    /\ cal.current_history[1] = 0
    /\ cal.consecutive_zero_readings = 2
    /\ cal.in_stable_period
    /\ cal.stable_load_value = 200

----------------------------------------------------------------------------
(* Properties of the zero-point calibration that may fail (SpecAbort)      *)

IterateAbortStep ==
    /\ fed' = fed
    /\ now' = now
    /\ load' = load
    /\ cal' # cal

(* The mean of the raw values that the successful reads of the connected   *)
(* source yield, as a voltage.                                             *)
MeanRawVoltage == (load.rest * ADC_VOLTAGE_RANGE) \div ADC_RESOLUTION

----------------------------------------------------------------------------
(* Properties of the measurements (SpecMeasure)                            *)

(* The step is a call of measure_rms_current.                              *)
SamplerStep == fed'.n = fed.n + 1

(* The number of reads of the call that succeed on the connected source.   *)
ValidReads == RMS_BUFFER_SIZE - Samples(load, RMS_BUFFER_SIZE).k

(* The value that the call returned.                                       *)
Reading == ret'["sampler"]

StatisticsUpdated ==
    /\ snd'.total_measurements = snd.total_measurements + 1
    /\ snd'.measurement_count = snd.measurement_count + 1
    /\ snd'.min_current = (IF Reading < snd.min_current THEN Reading ELSE snd.min_current)
    /\ snd'.max_current = (IF Reading > snd.max_current THEN Reading ELSE snd.max_current)
    /\ snd'.accumulated_current = snd.accumulated_current + Reading

(* The reading went into the slot of current_history at the index and the  *)
(* index moved on.                                                         *)
HistoryAppended ==
    /\ cal'.current_history[cal.history_index] = Reading
    /\ cal'.history_index # cal.history_index

HistoryUntouched ==
    /\ cal'.current_history = cal.current_history
    /\ cal'.history_index = cal.history_index
    /\ cal'.history_full = cal.history_full
    /\ cal'.consecutive_zero_readings = cal.consecutive_zero_readings
    /\ cal'.in_stable_period = cal.in_stable_period
    /\ cal'.stable_load_start = cal.stable_load_start
    /\ cal'.stable_load_value = cal.stable_load_value

(* C35: every measurement with at least one successful read updates the    *)
(* statistics and appends its reading to current_history, whatever the     *)
(* mode flags are.                                                         *)
C35_AlwaysForwarded ==
    [][ SamplerStep /\ ValidReads > 0 => StatisticsUpdated /\ HistoryAppended ]_vars

(* C35, amended: every measurement with at least one successful read       *)
(* updates the statistics; it appends its reading to current_history when  *)
(* auto-calibration is enabled and leaves the history and the stability    *)
(* detector as they were when it is disabled.                              *)
C35_ForwardedWhenEnabled ==
    [][ SamplerStep /\ ValidReads > 0 =>
          /\ StatisticsUpdated
          /\ cal.auto_calibration_enabled => HistoryAppended
          /\ ~cal.auto_calibration_enabled => HistoryUntouched
      ]_vars

(* Two measurements of 5 A, the second one after AUTO_CAL_OFF: both are in *)
(* the statistics, one is in the history.                                  *)
C35_Witness ==
    /\ load = Steady(Load25)
    /\ ~cal.auto_calibration_enabled
    /\ fed.n = 2
    /\ snd.total_measurements = 2
    /\ snd.accumulated_current = 2 * ret["sampler"]
    /\ snd.max_current = ret["sampler"]
    /\ ret["sampler"] > 0
    /\ cal.history_index = 1

(* The handler ran a detection pass for the command AUTO_DETECT.           *)
DetectCommandStep ==
    /\ HandlerStep
    /\ command'.name = "AUTO_DETECT"

(* The measurement of the step ran the periodic detection pass.            *)
PeriodicDetectionStep ==
    /\ SamplerStep
    /\ cal.auto_detection_enabled
    /\ snd'.measurement_count = snd.measurement_count + 1
    /\ snd'.measurement_count % DetectionPeriod = 0

ParametersUntouched ==
    /\ cal'.bias_voltage = cal.bias_voltage
    /\ cal'.amps_per_volt = cal.amps_per_volt
    /\ cal'.successful_recognitions = cal.successful_recognitions
    /\ cal'.failed_recognitions = cal.failed_recognitions
    /\ cal'.learning_points = cal.learning_points
    /\ cal'.learning_point_count = cal.learning_point_count

(* The slots of current_history that the step filled.                      *)
SlotsFilled == (cal'.history_index - cal.history_index + HISTORY_SIZE) % HISTORY_SIZE

(* C36: a detection pass only updates the detected load. Run by            *)
(* AUTO_DETECT it leaves current_history, consecutive_zero_readings, the   *)
(* stability state, the calibration parameters, the recognition counters   *)
(* and the learning history as they were; run by the 50th measurement it   *)
(* adds nothing to the one reading that the measurement appends.           *)
C36_DetectionOnlyReports ==
    [][ /\ DetectCommandStep => HistoryUntouched /\ ParametersUntouched
        /\ PeriodicDetectionStep => SlotsFilled <= 1
      ]_vars

(* The AC voltage of the successful reads of the connected source: they    *)
(* all yield the same raw value.                                           *)
AcVoltage ==
    LET ac == adc_to_voltage(load.rest) - cal.bias_voltage
    IN  IF ac < 0 THEN -ac ELSE ac

(* C37: a measurement attempts all 100 reads whichever of them fail, and   *)
(* only the successful ones enter the sum of squares and the divisor: the  *)
(* buffer receives one voltage per successful read and the RMS voltage is  *)
(* that of the successful reads. When no read succeeds the measurement     *)
(* returns 0 and leaves the statistics, last_measured_vrms,                *)
(* current_history and the stability state as they were.                   *)
C37_FailedReadsSkipped ==
    [][ SamplerStep =>
          /\ snd'.buffer_index = (snd.buffer_index + ValidReads) % RMS_BUFFER_SIZE
          /\ IF ValidReads > 0
             THEN snd'.last_measured_vrms = AcVoltage
             ELSE /\ Reading = 0
                  /\ snd' = snd
                  /\ HistoryUntouched
      ]_vars

(* 49 measurements on the source on which 78 of 100 reads fail, then one   *)
(* on the source on which all fail.                                        *)
C37_Witness ==
    /\ load = Failing(100)
    /\ fed.n = DetectionPeriod
    /\ snd.total_measurements = DetectionPeriod - 1
    /\ snd.buffer_index = ((DetectionPeriod - 1) * 22) % RMS_BUFFER_SIZE
    /\ snd.last_measured_vrms = adc_to_voltage(Load30) - cal.bias_voltage
    /\ snd.last_measured_vrms > 0
    /\ ret["sampler"] = 0

(* C39: every command reaches its own handler, which answers under the     *)
(* command's name; AUTO_DETECT_ON sets auto_detection_enabled,             *)
(* AUTO_DETECT_OFF clears it, and neither runs a detection pass.           *)
C39_OwnHandler ==
    [][ HandlerStep /\ command'.name \in ModeCommands =>
          /\ response'[1] = command'.name
          /\ command'.name = "AUTO_DETECT_ON" =>
                /\ cal'.auto_detection_enabled
                /\ cal'.log = <<>>
          /\ command'.name = "AUTO_DETECT_OFF" =>
                /\ ~cal'.auto_detection_enabled
                /\ cal'.log = <<>>
      ]_vars

----------------------------------------------------------------------------
(* Properties of the sensitivity adaptation (SpecAdapt)                    *)

(* Task t changes the sensitivity in the step.                             *)
Changes(t) ==
    /\ InAdaptation(t) /\ pc[t].ip = 1
    /\ pc'[t].ip \in {2, 3}

(* Task t has changed the sensitivity at the present time and has not yet  *)
(* recorded it in last_adjustment.                                         *)
JustChanged(t) == InAdaptation(t) /\ pc[t].ip \in {2, 3}

RateAbove(s, tenths) ==
    IF s.successful_recognitions + s.failed_recognitions > 0
    THEN 10 * s.successful_recognitions
             > tenths * (s.successful_recognitions + s.failed_recognitions)
    ELSE 5 > tenths

RateBelow(s, tenths) ==
    IF s.successful_recognitions + s.failed_recognitions > 0
    THEN 10 * s.successful_recognitions
             < tenths * (s.successful_recognitions + s.failed_recognitions)
    ELSE 5 < tenths

(* The step rule: up by 0.05 iff the rate is above 0.8 and the sensitivity *)
(* below 0.9, down by 0.05 iff the rate is below 0.4 and the sensitivity   *)
(* above 0.3, unchanged otherwise.                                         *)
StepRule ==
    \A t \in Created :
        InAdaptation(t) /\ pc[t].ip = 1 /\ pc'[t] # pc[t] =>
            cal'.auto_cal_sensitivity =
                IF RateAbove(cal, 8) /\ cal.auto_cal_sensitivity < 90
                THEN cal.auto_cal_sensitivity + 5
                ELSE IF RateBelow(cal, 4) /\ cal.auto_cal_sensitivity > 30
                THEN cal.auto_cal_sensitivity - 5
                ELSE cal.auto_cal_sensitivity

(* A change is made an hour or more after the adjustment that              *)
(* last_adjustment records, and no other task has made one at the present  *)
(* time.                                                                   *)
HourApart ==
    \A t \in Created :
        Changes(t) =>
            /\ now - cal.last_adjustment >= 3600000
            /\ \A other \in Created \ {t} : ~JustChanged(other)

(* C38: an adaptation step follows the step rule, and two changes of the   *)
(* sensitivity made by the adaptation are at least one hour apart,         *)
(* whatever number of controller tasks run.                                *)
C38_AdaptationHourly == [][StepRule /\ HourApart]_vars

----------------------------------------------------------------------------
(* Properties of the Wi-Fi credentials task (SpecWifi)                     *)

(* The datagrams sent to the client in the latest iteration report a       *)
(* connection.                                                             *)
Connected(w) == w.sent = <<"RECEIVED", "SUCCESS">>

Rejected(w) == w.sent = <<"RECEIVED", "FAILED">>

(* The iteration of the step received credentials (a datagram of len > 0). *)
CredentialStep ==
    /\ wifi' # wifi
    /\ wifi'.received.kind = "credentials"

(* The iteration of the step received nothing: a timeout, an error or an   *)
(* empty datagram.                                                         *)
NothingStep ==
    /\ wifi' # wifi
    /\ wifi'.received.kind \in {"timeout", "empty"}

====
